---- MODULE Spec2Model ----
(***************************************************************************)
(* A model of the name generator: the ValidChar alphabet, the CharType     *)
(* classifier, the NGramWeights table and the NameExperiments orchestrator *)
(* (read_sample, generate_probability_distribution, guess_next_char,       *)
(* build_random_name).                                                     *)
(*                                                                         *)
(* Conventions                                                             *)
(*  - a char is its code point; Option<char> is <<>> (None) or <<c>>.      *)
(*  - a ValidChar / CharType is its discriminant (the value `as usize`).   *)
(*  - arrays and slices are sequences; index i of the source is i+1 here.  *)
(*  - Result values are records [kind |-> "ok" | "err" | "panic", ...].    *)
(*  - f64 values are exact rationals: a probability is (num/den)^e with a  *)
(*    denominator common to the 29 entries; 0.0/0.0 is the value NaN.      *)
(*    Rounding of f64 is not modelled.                                     *)
(*  - overflow_checks is the build's arithmetic-overflow setting: an       *)
(*    overflowing usize/u32 operation panics when it is on (the default of *)
(*    debug and test builds) and wraps when it is off (release builds).    *)
(***************************************************************************)
EXTENDS Integers, Sequences, FiniteSets, TLC

VARIABLES
    overflow_checks,              \* build setting, fixed for a run
    positive_char_samples,        \* NGramWeights<N, 29>
    negative_char_samples,        \* NGramWeights<N, 29>
    positive_char_type_samples,   \* NGramWeights<N, 10>
    negative_char_type_samples,   \* NGramWeights<N, 10>
    name_sizes,                   \* (Vec<usize>, usize)
    crashed,                      \* a panic has ended the process
    history,                      \* ghost: the read_sample calls that returned
    last_read,                    \* ghost: the last read_sample call
    last_call,                    \* ghost: the last query call and its value
    pc,                           \* "idle", "loop" (in build_random_name), "done"
    hard_stop,                    \* build_random_name: its Option<u8> argument
    char_array,                   \* build_random_name: [ValidChar; N]
    char_type_array,              \* build_random_name: [CharType; N]
    name_string,                  \* build_random_name: the String, as chars
    next_char,                    \* build_random_name: last guessed ValidChar
    next_char_type,               \* build_random_name: last guessed CharType
    guess_calls,                  \* ghost: guess_next_char calls of this build
    build_result                  \* what build_random_name returned

vars == <<overflow_checks, positive_char_samples, negative_char_samples,
          positive_char_type_samples, negative_char_type_samples, name_sizes,
          crashed, history, last_read, last_call, pc, hard_stop, char_array,
          char_type_array, name_string, next_char, next_char_type,
          guess_calls, build_result>>

model_vars == <<positive_char_samples, negative_char_samples,
                positive_char_type_samples, negative_char_type_samples,
                name_sizes>>

build_vars == <<pc, hard_stop, char_array, char_type_array, name_string,
                next_char, next_char_type, guess_calls, build_result>>

(***************************************************************************)
(* Bounds of the model.                                                    *)
(***************************************************************************)
\* N, the const generic parameter of NameExperiments and NGramWeights.
N == 2
\* read_sample calls in one behaviour.
MaxSamples == 2
\* random draws are the fractions k/2^DrawBits, k in 0..2^DrawBits-1, of [0,1).
DrawBits == 1
\* positions (character_count) queried directly: 0..MaxPosition.
MaxPosition == 5

(***************************************************************************)
(* Results.                                                                *)
(***************************************************************************)
Ok(v) == [kind |-> "ok", val |-> v]
Err == [kind |-> "err"]
Panic == [kind |-> "panic"]

None == <<>>
Some(c) == <<c>>

RECURSIVE Pow(_, _)
Pow(b, e) == IF e = 0 THEN 1 ELSE b * Pow(b, e - 1)


(***************************************************************************)
(* validchars.rs: ValidChar.                                               *)
(***************************************************************************)
ValidChar_a == 0
ValidChar_b == 1
ValidChar_c == 2
ValidChar_d == 3
ValidChar_e == 4
ValidChar_f == 5
ValidChar_g == 6
ValidChar_h == 7
ValidChar_i == 8
ValidChar_j == 9
ValidChar_k == 10
ValidChar_l == 11
ValidChar_m == 12
ValidChar_n == 13
ValidChar_o == 14
ValidChar_p == 15
ValidChar_q == 16
ValidChar_r == 17
ValidChar_s == 18
ValidChar_t == 19
ValidChar_u == 20
ValidChar_v == 21
ValidChar_w == 22
ValidChar_x == 23
ValidChar_y == 24
ValidChar_z == 25
ValidChar_dash == 26
ValidChar_apostrophe == 27
ValidChar_null == 28
ValidChar_VARIANTCOUNT == 29

ValidChars == 0 .. (ValidChar_VARIANTCOUNT - 1)

\* ALLCHARS[i] is the ValidChar of discriminant i.
ALLCHARS == [i \in 1 .. ValidChar_VARIANTCOUNT |-> i - 1]

\* char code points the source names.
Char_a == 97
Char_dash == 45
Char_apostrophe == 39
Char_nul == 0

\* char::to_lowercase: the simple and special lowercase mappings of the
\* Unicode Character Database (code points assigned as of Unicode 17), as
\* runs <<first, last, step, delta>>: the code points first, first + step,
\* ..., last map to themselves plus delta, every other code point maps to
\* itself.  U+0130 is the one code point whose mapping has two chars
\* (i, U+0307); the run holds the first, the one `.next()` yields.
LowercaseRuns == <<
    <<65, 90, 1, 32>>, <<192, 214, 1, 32>>, <<216, 222, 1, 32>>,
    <<256, 302, 2, 1>>, <<304, 304, 1, -199>>, <<306, 310, 2, 1>>,
    <<313, 327, 2, 1>>, <<330, 374, 2, 1>>, <<376, 376, 1, -121>>,
    <<377, 381, 2, 1>>, <<385, 385, 1, 210>>, <<386, 388, 2, 1>>,
    <<390, 390, 1, 206>>, <<391, 391, 1, 1>>, <<393, 394, 1, 205>>,
    <<395, 395, 1, 1>>, <<398, 398, 1, 79>>, <<399, 399, 1, 202>>,
    <<400, 400, 1, 203>>, <<401, 401, 1, 1>>, <<403, 403, 1, 205>>,
    <<404, 404, 1, 207>>, <<406, 406, 1, 211>>, <<407, 407, 1, 209>>,
    <<408, 408, 1, 1>>, <<412, 412, 1, 211>>, <<413, 413, 1, 213>>,
    <<415, 415, 1, 214>>, <<416, 420, 2, 1>>, <<422, 422, 1, 218>>,
    <<423, 423, 1, 1>>, <<425, 425, 1, 218>>, <<428, 428, 1, 1>>,
    <<430, 430, 1, 218>>, <<431, 431, 1, 1>>, <<433, 434, 1, 217>>,
    <<435, 437, 2, 1>>, <<439, 439, 1, 219>>, <<440, 440, 1, 1>>,
    <<444, 444, 1, 1>>, <<452, 452, 1, 2>>, <<453, 453, 1, 1>>,
    <<455, 455, 1, 2>>, <<456, 456, 1, 1>>, <<458, 458, 1, 2>>,
    <<459, 475, 2, 1>>, <<478, 494, 2, 1>>, <<497, 497, 1, 2>>,
    <<498, 500, 2, 1>>, <<502, 502, 1, -97>>, <<503, 503, 1, -56>>,
    <<504, 542, 2, 1>>, <<544, 544, 1, -130>>, <<546, 562, 2, 1>>,
    <<570, 570, 1, 10795>>, <<571, 571, 1, 1>>, <<573, 573, 1, -163>>,
    <<574, 574, 1, 10792>>, <<577, 577, 1, 1>>, <<579, 579, 1, -195>>,
    <<580, 580, 1, 69>>, <<581, 581, 1, 71>>, <<582, 590, 2, 1>>,
    <<880, 882, 2, 1>>, <<886, 886, 1, 1>>, <<895, 895, 1, 116>>,
    <<902, 902, 1, 38>>, <<904, 906, 1, 37>>, <<908, 908, 1, 64>>,
    <<910, 911, 1, 63>>, <<913, 929, 1, 32>>, <<931, 939, 1, 32>>,
    <<975, 975, 1, 8>>, <<984, 1006, 2, 1>>, <<1012, 1012, 1, -60>>,
    <<1015, 1015, 1, 1>>, <<1017, 1017, 1, -7>>, <<1018, 1018, 1, 1>>,
    <<1021, 1023, 1, -130>>, <<1024, 1039, 1, 80>>, <<1040, 1071, 1, 32>>,
    <<1120, 1152, 2, 1>>, <<1162, 1214, 2, 1>>, <<1216, 1216, 1, 15>>,
    <<1217, 1229, 2, 1>>, <<1232, 1326, 2, 1>>, <<1329, 1366, 1, 48>>,
    <<4256, 4293, 1, 7264>>, <<4295, 4295, 1, 7264>>, <<4301, 4301, 1, 7264>>,
    <<5024, 5103, 1, 38864>>, <<5104, 5109, 1, 8>>, <<7305, 7305, 1, 1>>,
    <<7312, 7354, 1, -3008>>, <<7357, 7359, 1, -3008>>, <<7680, 7828, 2, 1>>,
    <<7838, 7838, 1, -7615>>, <<7840, 7934, 2, 1>>, <<7944, 7951, 1, -8>>,
    <<7960, 7965, 1, -8>>, <<7976, 7983, 1, -8>>, <<7992, 7999, 1, -8>>,
    <<8008, 8013, 1, -8>>, <<8025, 8031, 2, -8>>, <<8040, 8047, 1, -8>>,
    <<8072, 8079, 1, -8>>, <<8088, 8095, 1, -8>>, <<8104, 8111, 1, -8>>,
    <<8120, 8121, 1, -8>>, <<8122, 8123, 1, -74>>, <<8124, 8124, 1, -9>>,
    <<8136, 8139, 1, -86>>, <<8140, 8140, 1, -9>>, <<8152, 8153, 1, -8>>,
    <<8154, 8155, 1, -100>>, <<8168, 8169, 1, -8>>, <<8170, 8171, 1, -112>>,
    <<8172, 8172, 1, -7>>, <<8184, 8185, 1, -128>>, <<8186, 8187, 1, -126>>,
    <<8188, 8188, 1, -9>>, <<8486, 8486, 1, -7517>>, <<8490, 8490, 1, -8383>>,
    <<8491, 8491, 1, -8262>>, <<8498, 8498, 1, 28>>, <<8544, 8559, 1, 16>>,
    <<8579, 8579, 1, 1>>, <<9398, 9423, 1, 26>>, <<11264, 11311, 1, 48>>,
    <<11360, 11360, 1, 1>>, <<11362, 11362, 1, -10743>>, <<11363, 11363, 1, -3814>>,
    <<11364, 11364, 1, -10727>>, <<11367, 11371, 2, 1>>, <<11373, 11373, 1, -10780>>,
    <<11374, 11374, 1, -10749>>, <<11375, 11375, 1, -10783>>, <<11376, 11376, 1, -10782>>,
    <<11378, 11378, 1, 1>>, <<11381, 11381, 1, 1>>, <<11390, 11391, 1, -10815>>,
    <<11392, 11490, 2, 1>>, <<11499, 11501, 2, 1>>, <<11506, 11506, 1, 1>>,
    <<42560, 42604, 2, 1>>, <<42624, 42650, 2, 1>>, <<42786, 42798, 2, 1>>,
    <<42802, 42862, 2, 1>>, <<42873, 42875, 2, 1>>, <<42877, 42877, 1, -35332>>,
    <<42878, 42886, 2, 1>>, <<42891, 42891, 1, 1>>, <<42893, 42893, 1, -42280>>,
    <<42896, 42898, 2, 1>>, <<42902, 42920, 2, 1>>, <<42922, 42922, 1, -42308>>,
    <<42923, 42923, 1, -42319>>, <<42924, 42924, 1, -42315>>, <<42925, 42925, 1, -42305>>,
    <<42926, 42926, 1, -42308>>, <<42928, 42928, 1, -42258>>, <<42929, 42929, 1, -42282>>,
    <<42930, 42930, 1, -42261>>, <<42931, 42931, 1, 928>>, <<42932, 42946, 2, 1>>,
    <<42948, 42948, 1, -48>>, <<42949, 42949, 1, -42307>>, <<42950, 42950, 1, -35384>>,
    <<42951, 42953, 2, 1>>, <<42955, 42955, 1, -42343>>, <<42956, 42970, 2, 1>>,
    <<42972, 42972, 1, -42561>>, <<42997, 42997, 1, 1>>, <<65313, 65338, 1, 32>>,
    <<66560, 66599, 1, 40>>, <<66736, 66771, 1, 40>>, <<66928, 66938, 1, 39>>,
    <<66940, 66954, 1, 39>>, <<66956, 66962, 1, 39>>, <<66964, 66965, 1, 39>>,
    <<68736, 68786, 1, 64>>, <<68944, 68965, 1, 32>>, <<71840, 71871, 1, 32>>,
    <<93760, 93791, 1, 32>>, <<93856, 93880, 1, 27>>, <<125184, 125217, 1, 34>> >>

RECURSIVE lowercase_in(_, _, _, _)
\* the lowercase of c by the run of `runs` whose range first .. last holds c,
\* searched between the runs lo and hi by halving; c moves by the run's
\* offset when it is on the run's step, and no run leaves c as it is
lowercase_in(runs, c, lo, hi) ==
    IF lo > hi THEN c
    ELSE IF c < runs[(lo + hi) \div 2][1]
    THEN lowercase_in(runs, c, lo, ((lo + hi) \div 2) - 1)
    ELSE IF c > runs[(lo + hi) \div 2][2]
    THEN lowercase_in(runs, c, ((lo + hi) \div 2) + 1, hi)
    ELSE IF (c - runs[(lo + hi) \div 2][1]) % runs[(lo + hi) \div 2][3] # 0 THEN c
    ELSE c + runs[(lo + hi) \div 2][4]

\* c.to_lowercase().next().unwrap()
to_lowercase(c) == lowercase_in(LowercaseRuns, c, 1, Len(LowercaseRuns))

\* `match input_char` of try_from.  `as u32 - 'a' as u32` underflows for a
\* char below 'a': a panic with overflow checks, otherwise the wrapped value
\* (at least 2^32 - 97, so no arm 0..25 matches and the result is Err).
match_input_char(input_char, checks) ==
    IF input_char = Char_dash THEN Ok(ValidChar_dash)
    ELSE IF input_char = Char_apostrophe THEN Ok(ValidChar_apostrophe)
    ELSE IF input_char = Char_nul THEN Ok(ValidChar_null)
    ELSE IF input_char < Char_a THEN (IF checks THEN Panic ELSE Err)
    ELSE LET c_ident == input_char - Char_a IN
         IF c_ident <= 25 THEN Ok(c_ident) ELSE Err

\* impl TryFrom<&char> for ValidChar: the char lowered, then matched
ValidChar_try_from(c, checks) == match_input_char(to_lowercase(c), checks)

\* From<ValidChar> for char with the letters decoded from 'A', the case
\* the input had before try_from lowered it
char_from_upper(value) ==
    IF value = ValidChar_apostrophe THEN Char_apostrophe
    ELSE IF value = ValidChar_dash THEN Char_dash
    ELSE IF value = ValidChar_null THEN Char_nul
    ELSE value + Char_a - 32

\* impl From<ValidChar> for char.
char_from(value) ==
    IF value = ValidChar_apostrophe THEN Char_apostrophe
    ELSE IF value = ValidChar_dash THEN Char_dash
    ELSE IF value = ValidChar_null THEN Char_nul
    ELSE value + Char_a

(***************************************************************************)
(* char_types.rs: CharType and the classifier.                             *)
(***************************************************************************)
VowelRoot == 0
VowelModifier == 1
SemiPunctuation == 2
Plosive == 3
Fricative == 4
Affricate == 5
Nasal == 6
Approximant == 7
Silent == 8
Null == 9
CharType_VARIANTCOUNT == 10

CharTypes == 0 .. (CharType_VARIANTCOUNT - 1)

\* the pattern ValidChar::a | e | i | o | u
IsVowel(ch) == ch \in {ValidChar_a, ValidChar_e, ValidChar_i, ValidChar_o, ValidChar_u}

\* the symbol that decides an e after a consonant with no lookback past
\* the two preceding symbols
deciding_two_back(c1, c2, c3) == c2

\* the symbol that decides an e after the consonant c1: `let c2 = match (c2,
\* c1)`, the symbol two back, or three back after the digraphs th, ch, sh
deciding(c1, c2, c3) ==
    IF c1 = ValidChar_h /\ c2 \in {ValidChar_t, ValidChar_c, ValidChar_s}
    THEN c3 ELSE c2

\* impl TryFrom<&[ValidChar;4]> for CharType.  value.into_iter().rev() yields
\* value[3], value[2], value[1], value[0] (here value[4] .. value[1]); on an
\* array of 4 every next() the code makes is Some, so its else branches
\* are never taken.  The conversion never returns Err.
classify(cur, c1, c2, c3) ==
    IF cur \in {ValidChar_p, ValidChar_b, ValidChar_t, ValidChar_k, ValidChar_d, ValidChar_q} THEN Plosive
    ELSE IF cur \in {ValidChar_f, ValidChar_s, ValidChar_v, ValidChar_x, ValidChar_z} THEN Fricative
    ELSE IF cur = ValidChar_j THEN Affricate
    ELSE IF cur \in {ValidChar_w, ValidChar_r, ValidChar_l} THEN Approximant
    ELSE IF cur \in {ValidChar_m, ValidChar_n} THEN Nasal
    ELSE IF cur \in {ValidChar_apostrophe, ValidChar_dash} THEN SemiPunctuation
    ELSE IF cur = ValidChar_null THEN Null
    ELSE IF cur = ValidChar_c THEN
        (IF c1 = ValidChar_s THEN Silent ELSE Plosive)
    ELSE IF cur = ValidChar_h THEN
        (IF c1 = ValidChar_c THEN Affricate
         ELSE IF c1 = ValidChar_t THEN Fricative
         ELSE IF c1 = ValidChar_g THEN Silent
         ELSE Fricative)
    ELSE IF cur = ValidChar_g THEN
        (IF c1 = ValidChar_n THEN Nasal ELSE Plosive)
    ELSE IF cur = ValidChar_y THEN
        (IF IsVowel(c1) THEN VowelModifier ELSE VowelRoot)
    ELSE IF cur \in {ValidChar_a, ValidChar_i, ValidChar_o, ValidChar_u} THEN
        (IF IsVowel(c1) THEN VowelModifier ELSE VowelRoot)
    ELSE \* ValidChar::e
        IF IsVowel(c1) THEN VowelModifier
        ELSE IF IsVowel(deciding(c1, c2, c3)) THEN VowelModifier ELSE VowelRoot

\* the classifier reading the window from its oldest slot, as
\* value.into_iter() without rev() does
CharType_try_from_no_rev(value) == classify(value[1], value[2], value[3], value[4])

\* impl TryFrom<&[ValidChar;4]> for CharType: Ok(category), never an Err
CharType_try_from(value) == classify(value[4], value[3], value[2], value[1])

(***************************************************************************)
(* ngramweights.rs: NGramWeights<N, V>.  The V^N rows are held sparsely:   *)
(* a row index outside DOMAIN weights is a row of V zero counters, as      *)
(* NGramWeights::new leaves every row; its sum is sum_default, which is 0  *)
(* until finalize adds V to every row's sum.  After a finalize call that   *)
(* panicked at row `split`, the rows below `split` hold V more.            *)
(***************************************************************************)
\* the largest value of a u8 counter
U8_MAX == 255

NGramWeights_new(V) ==
    [V |-> V, weights |-> [x \in {} |-> <<>>], sum |-> [x \in {} |-> 0],
     sum_default |-> 0, split |-> 0, finalized |-> FALSE]

ZeroRow(V) == [j \in 1 .. V |-> 0]

RowAt(t, index) == IF index \in DOMAIN t.weights THEN t.weights[index] ELSE ZeroRow(t.V)

SumAt(t, index) ==
    IF index \in DOMAIN t.sum THEN t.sum[index]
    ELSE t.sum_default + (IF index < t.split THEN t.V ELSE 0)

RECURSIVE IndexSum(_, _, _)
\* the loop of get_row_index: for i in 0..n, index += V.pow(i) * char_seq[i]
IndexSum(V, char_seq, n) ==
    IF n = 0 THEN 0
    ELSE IndexSum(V, char_seq, n - 1) + Pow(V, n - 1) * char_seq[n]

get_row_index(t, char_seq) ==
    IF Len(char_seq) < N THEN Err ELSE Ok(IndexSum(t.V, char_seq, N))

get_row_and_sum(t, char_seq) ==
    LET index == get_row_index(t, char_seq) IN
    IF index.kind # "ok" THEN Err
    ELSE Ok(<<RowAt(t, index.val), SumAt(t, index.val)>>)

\* the Err cases of get_mut_row_and_sum; on Ok the caller receives the row
\* and the sum of the index returned here.
get_mut_row_and_sum(t, char_seq) ==
    IF t.finalized THEN Err ELSE get_row_index(t, char_seq)

\* add_to_weights with wrapping additions in place of the checked ones: the
\* counter that holds 255 goes back to 0 and the call returns Ok
add_to_weights_wrapping(t, sequence, following_char) ==
    IF t.finalized THEN [table |-> t, result |-> Err]
    ELSE IF Len(sequence) < N THEN [table |-> t, result |-> Err]
    ELSE LET index == get_mut_row_and_sum(t, sequence).val
             row == RowAt(t, index)
             column == following_char + 1
         IN [table |->
                [t EXCEPT !.weights =
                              (index :> [row EXCEPT ![column] = (@ + 1) % (U8_MAX + 1)]) @@ @,
                          !.sum = (index :> (SumAt(t, index) + 1)) @@ @],
             result |-> Ok(<<>>)]

\* add_to_weights with the two checked_adds in the other order: the sum is
\* incremented before the counter is found to hold 255
add_to_weights_sum_first(t, sequence, following_char) ==
    IF t.finalized THEN [table |-> t, result |-> Err]
    ELSE IF Len(sequence) < N THEN [table |-> t, result |-> Err]
    ELSE LET index == get_mut_row_and_sum(t, sequence).val
             row == RowAt(t, index)
             column == following_char + 1
             summed == [t EXCEPT !.sum = (index :> (SumAt(t, index) + 1)) @@ @]
         IN IF row[column] + 1 > U8_MAX THEN [table |-> summed, result |-> Err]
            ELSE [table |->
                     [summed EXCEPT !.weights =
                          (index :> [row EXCEPT ![column] = @ + 1]) @@ @],
                  result |-> Ok(<<>>)]

\* add_to_weights returns [table, result].  `row[column] = checked_add(1)?`
\* returns before the assignment when the counter holds 255, so neither the
\* counter nor the sum moves.  The checked_add on the usize sum cannot fail:
\* a row's sum is at most V * 255.
add_to_weights(t, sequence, following_char) ==
    IF t.finalized THEN [table |-> t, result |-> Err]
    ELSE IF Len(sequence) < N THEN [table |-> t, result |-> Err]
    ELSE LET index == get_mut_row_and_sum(t, sequence).val
             row == RowAt(t, index)
             column == following_char + 1
         IN IF row[column] + 1 > U8_MAX THEN [table |-> t, result |-> Err]
            ELSE [table |->
                     [t EXCEPT !.weights = (index :> [row EXCEPT ![column] = @ + 1]) @@ @,
                               !.sum = (index :> (SumAt(t, index) + 1)) @@ @],
                  result |-> Ok(<<>>)]

\* the rows finalize cannot pass with overflow checks: weights[i][j]+1 is a
\* u8 addition, which overflows on a counter that holds 255
FullRows(t) ==
    {index \in DOMAIN t.weights : \E j \in 1 .. t.V : t.weights[index][j] + 1 > U8_MAX}

\* finalize returns [table, result].  u8::try_from of a u8 is never an Err,
\* so the while loop does not run and divisor stays 1: each row only has V
\* added to its sum, and the flag is set after the last row.  No check of
\* the flag is made on entry.  With overflow checks the addition
\* weights[i][j]+1 panics at the first row that holds a counter of 255, the
\* rows before it already changed; without them it wraps to 0.
finalize(t, checks) ==
    IF checks /\ FullRows(t) # {}
    THEN LET i0 == CHOOSE i \in FullRows(t) : \A k \in FullRows(t) : i <= k
         IN [table |-> [t EXCEPT !.sum = [index \in DOMAIN @ |->
                                             IF index < i0 THEN @[index] + t.V
                                             ELSE @[index]],
                                 !.split = i0],
             result |-> Panic]
    ELSE [table |-> [t EXCEPT !.sum = [index \in DOMAIN @ |-> @[index] + t.V],
                              !.sum_default = @ + t.V,
                              !.finalized = TRUE],
          result |-> Ok(<<>>)]

(***************************************************************************)
(* lib.rs: NameExperiments<N>.  `self` is the record of its five fields.   *)
(***************************************************************************)
Pos == "Pos"
Neg == "Neg"

NameExperiments_new ==
    [positive_char_samples |-> NGramWeights_new(ValidChar_VARIANTCOUNT),
     negative_char_samples |-> NGramWeights_new(ValidChar_VARIANTCOUNT),
     positive_char_type_samples |-> NGramWeights_new(CharType_VARIANTCOUNT),
     negative_char_type_samples |-> NGramWeights_new(CharType_VARIANTCOUNT),
     name_sizes |-> <<<<0>>, 0>>]

\* [x; N]
Repeat(x, n) == [k \in 1 .. n |-> x]

\* a[N-1] = x with the rotate_left(1) left out
RotatePush_no_rotate(a, x) == [a EXCEPT ![Len(a)] = x]

\* a.rotate_left(1); a[N-1] = x
RotatePush(a, x) == Tail(a) \o <<x>>

RECURSIVE PushZeros_one_more(_, _)
\* the loop of add_to_sizes_distribution run until the Vec holds one entry
\* more than the sample's length needs
PushZeros_one_more(sizes, len) ==
    IF len > Len(sizes) - 2 THEN PushZeros_one_more(Append(sizes, 0), len) ELSE sizes

RECURSIVE PushZeros(_, _)
\* while chars.len() > sizes.len()-1 { sizes.push(0) }
PushZeros(sizes, len) ==
    IF len > Len(sizes) - 1 THEN PushZeros(Append(sizes, 0), len) ELSE sizes

add_to_sizes_distribution(sizes, chars) ==
    LET grown == PushZeros(sizes[1], Len(chars)) IN
    <<[grown EXCEPT ![Len(chars) + 1] = @ + 1], sizes[2] + 1>>

RECURSIVE read_chars(_, _, _, _, _, _, _)
\* the `while let Some(p_char) = text[i]` loop of read_sample, from index i.
\* text[i] past the end of the slice is an index-out-of-bounds panic.
\* observed is the ghost list of the add_to_weights calls made.
read_chars(text, i, char_weights, n_gram, valid_chars, observed, checks) ==
    IF i >= Len(text)
    THEN [panic |-> TRUE, char_weights |-> char_weights, n_gram |-> n_gram,
          valid_chars |-> valid_chars, observed |-> observed]
    ELSE IF text[i + 1] = None
    THEN [panic |-> FALSE, char_weights |-> char_weights, n_gram |-> n_gram,
          valid_chars |-> valid_chars, observed |-> observed]
    ELSE LET converted == ValidChar_try_from(text[i + 1][1], checks) IN
         IF converted.kind = "panic"
         THEN [panic |-> TRUE, char_weights |-> char_weights, n_gram |-> n_gram,
               valid_chars |-> valid_chars, observed |-> observed]
         ELSE LET p_char == IF converted.kind = "ok" THEN converted.val
                            ELSE ValidChar_null
              IN read_chars(text, i + 1,
                            add_to_weights(char_weights, n_gram, p_char).table,
                            RotatePush(n_gram, p_char),
                            Append(valid_chars, p_char),
                            Append(observed, <<n_gram, p_char>>),
                            checks)

\* the 4-window read_sample classifies for position i (0-based):
\* char_slice[4-(j+1)] = valid_chars[i-(j+1)] for j in 0..4 with j+1 <= i.
char_slice(valid_chars, i) ==
    [k \in 1 .. 4 |-> IF 5 - k <= i THEN valid_chars[i - (4 - k)] ELSE ValidChar_null]

RECURSIVE add_char_types(_, _, _, _)
\* the `for i in 0..char_types.len()` loop of read_sample, from index i
add_char_types(char_type_weights, char_type_slice, char_types, i) ==
    IF i >= Len(char_types) THEN char_type_weights
    ELSE add_char_types(
            add_to_weights(char_type_weights, char_type_slice, char_types[i + 1]).table,
            RotatePush(char_type_slice, char_types[i + 1]), char_types, i + 1)

\* the two `match test_type` with the category table taken from the
\* positive side whatever test_type is
written_types_positive(self, test_type, char_weights, char_type_weights) ==
    IF test_type = Pos
    THEN [self EXCEPT !.positive_char_samples = char_weights,
                      !.positive_char_type_samples = char_type_weights]
    ELSE [self EXCEPT !.negative_char_samples = char_weights,
                      !.positive_char_type_samples = char_type_weights]

\* self after the writes through the two &mut tables that the two
\* `match test_type` of read_sample select
written(self, test_type, char_weights, char_type_weights) ==
    IF test_type = Pos
    THEN [self EXCEPT !.positive_char_samples = char_weights,
                      !.positive_char_type_samples = char_type_weights]
    ELSE [self EXCEPT !.negative_char_samples = char_weights,
                      !.negative_char_type_samples = char_type_weights]

\* read_sample(text, test_type) on self: [kind, self, observed, valid_chars,
\* char_types].  On a panic `self` is the state the unwinding leaves.
\* valid_chars and char_types are the two local vectors.
read_sample(self, text, test_type, checks) ==
    LET char_weights == IF test_type = Pos THEN self.positive_char_samples
                        ELSE self.negative_char_samples
        char_type_weights == IF test_type = Pos THEN self.positive_char_type_samples
                             ELSE self.negative_char_type_samples
        loop == read_chars(text, 0, char_weights, Repeat(ValidChar_null, N), <<>>,
                           <<>>, checks)
    IN
    IF loop.panic
    THEN [kind |-> "panic",
          self |-> written(self, test_type, loop.char_weights, char_type_weights),
          observed |-> loop.observed, valid_chars |-> loop.valid_chars,
          char_types |-> <<>>]
    ELSE
    LET last == add_to_weights(loop.char_weights, loop.n_gram, ValidChar_null).table
        valid_chars == loop.valid_chars
        char_types == [i \in 1 .. Len(valid_chars) |->
                          CharType_try_from(char_slice(valid_chars, i - 1))]
        typed == add_char_types(char_type_weights, Repeat(Null, N), char_types, 0)
    IN [kind |-> "ok",
        self |-> [written(self, test_type, last, typed)
                     EXCEPT !.name_sizes = add_to_sizes_distribution(@, valid_chars)],
        observed |-> Append(loop.observed, <<loop.n_gram, ValidChar_null>>),
        valid_chars |-> valid_chars, char_types |-> char_types]

(***************************************************************************)
(* f64 arithmetic.  The probabilities of lib.rs are IEEE 754 binary64      *)
(* values, and every operation on them rounds its exact result to the      *)
(* nearest value of 53 significant bits, ties to the even one.  A value is *)
(*   [class |-> "fin", sign, exp, mant]  =  (-1)^sign * M * 2^exp          *)
(* with 2^52 <= M < 2^53 held as the four limbs mant[1] + mant[2] * 2^14   *)
(* + mant[3] * 2^28 + mant[4] * 2^42, or it is f64_zero, an infinity       *)
(* f64_inf(sign) or f64_nan.  The two zeros of f64 are held as one value:  *)
(* they compare equal, and a zero divisor of lib.rs is always +0.0 (a      *)
(* count converted, or x + (-x)).  No result of the calls modelled leaves  *)
(* the normal range 2^-1022 .. 2^1024, so exponents are not clamped.       *)
(***************************************************************************)
\* the number of bits of a limb and of an f64 significand
LimbBits == 14
MantissaBits == 53

\* TwoTo[k + 1] = 2^k
TwoTo == <<1, 2, 4, 8, 16, 32, 64, 128, 256, 512, 1024, 2048, 4096, 8192,
           16384, 32768, 65536, 131072, 262144, 524288, 1048576, 2097152,
           4194304, 8388608, 16777216, 33554432, 67108864, 134217728,
           268435456, 536870912, 1073741824>>
Pow2(k) == TwoTo[k + 1]
Limb == Pow2(LimbBits)

f64_nan == [class |-> "nan", sign |-> 0, exp |-> 0, mant |-> <<0, 0, 0, 0>>]
f64_zero == [class |-> "zero", sign |-> 0, exp |-> 0, mant |-> <<0, 0, 0, 0>>]
f64_inf(sign) == [class |-> "inf", sign |-> sign, exp |-> 0, mant |-> <<0, 0, 0, 0>>]
f64_fin(sign, exp, mant) == [class |-> "fin", sign |-> sign, exp |-> exp, mant |-> mant]

\* limb i of the natural number x (a sequence of limbs, lowest first)
LimbAt(x, i) == IF i >= 1 /\ i <= Len(x) THEN x[i] ELSE 0

RECURSIVE BitLen(_)
\* the number of bits of v
BitLen(v) == IF v = 0 THEN 0 ELSE 1 + BitLen(v \div 2)

RECURSIVE TopLimb(_, _)
\* the index of the highest non-zero limb of x at or below i, 0 for x = 0
TopLimb(x, i) == IF i = 0 THEN 0 ELSE IF x[i] # 0 THEN i ELSE TopLimb(x, i - 1)

\* the number of bits of x
NatBits(x) ==
    LET top == TopLimb(x, Len(x)) IN
    IF top = 0 THEN 0 ELSE LimbBits * (top - 1) + BitLen(x[top])

\* the low four limbs of x * 2^(LimbBits * q + b), 0 <= b < LimbBits
shl_limbs(x, q, b) ==
    << ((LimbAt(x, 1 - q) * Pow2(b)) % Limb) + (LimbAt(x, 0 - q) \div Pow2(LimbBits - b)),
       ((LimbAt(x, 2 - q) * Pow2(b)) % Limb) + (LimbAt(x, 1 - q) \div Pow2(LimbBits - b)),
       ((LimbAt(x, 3 - q) * Pow2(b)) % Limb) + (LimbAt(x, 2 - q) \div Pow2(LimbBits - b)),
       ((LimbAt(x, 4 - q) * Pow2(b)) % Limb) + (LimbAt(x, 3 - q) \div Pow2(LimbBits - b)) >>

\* the low four limbs of x \div 2^(LimbBits * q + b), 0 <= b < LimbBits
shr_limbs(x, q, b) ==
    << (LimbAt(x, 1 + q) \div Pow2(b)) + ((LimbAt(x, 2 + q) % Pow2(b)) * Pow2(LimbBits - b)),
       (LimbAt(x, 2 + q) \div Pow2(b)) + ((LimbAt(x, 3 + q) % Pow2(b)) * Pow2(LimbBits - b)),
       (LimbAt(x, 3 + q) \div Pow2(b)) + ((LimbAt(x, 4 + q) % Pow2(b)) * Pow2(LimbBits - b)),
       (LimbAt(x, 4 + q) \div Pow2(b)) + ((LimbAt(x, 5 + q) % Pow2(b)) * Pow2(LimbBits - b)) >>

\* m + 1 for a significand m; the fourth limb holds the carry out
mant_inc(m) ==
    IF m[1] + 1 < Limb THEN <<m[1] + 1, m[2], m[3], m[4]>>
    ELSE IF m[2] + 1 < Limb THEN <<0, m[2] + 1, m[3], m[4]>>
    ELSE IF m[3] + 1 < Limb THEN <<0, 0, m[3] + 1, m[4]>>
    ELSE <<0, 0, 0, m[4] + 1>>

\* round to nearest, ties to even: x has `bits` > 53 bits, of which the low
\* r = bits - 53 are dropped; `sticky` says the exact value lies above
\* x * 2^exp.  m is rounded up when the highest dropped bit is set, and so is
\* a lower one or the lowest kept.
round_drop(sign, x, exp, sticky, r, m) ==
    IF /\ (LimbAt(x, (r - 1) \div LimbBits + 1)
              \div Pow2((r - 1) % LimbBits)) % 2 = 1
       /\ \/ sticky
          \/ \E i \in 1 .. ((r - 1) \div LimbBits) : LimbAt(x, i) # 0
          \/ LimbAt(x, (r - 1) \div LimbBits + 1)
                 % Pow2((r - 1) % LimbBits) # 0
          \/ m[1] % 2 = 1
    THEN (IF mant_inc(m)[4] = Pow2(MantissaBits - 3 * LimbBits)
          THEN f64_fin(sign, exp + r + 1,
                       <<0, 0, 0, Pow2(MantissaBits - 1 - 3 * LimbBits)>>)
          ELSE f64_fin(sign, exp + r, mant_inc(m)))
    ELSE f64_fin(sign, exp + r, m)

round_bits(sign, x, exp, sticky, bits) ==
    IF bits = 0 THEN f64_zero
    ELSE IF bits <= MantissaBits
    THEN f64_fin(sign, exp - (MantissaBits - bits),
                 shl_limbs(x, (MantissaBits - bits) \div LimbBits,
                           (MantissaBits - bits) % LimbBits))
    ELSE round_drop(sign, x, exp, sticky, bits - MantissaBits,
                    shr_limbs(x, (bits - MantissaBits) \div LimbBits,
                              (bits - MantissaBits) % LimbBits))

\* the f64 nearest to (-1)^sign * (x + t) * 2^exp, where the natural number
\* x holds at least 55 bits when sticky, 0 < t < 1 when sticky and t = 0
\* otherwise
f64_round(sign, x, exp, sticky) == round_bits(sign, x, exp, sticky, NatBits(x))

RECURSIVE carried(_, _, _)
\* the limbs of the number whose limb i holds cols[i] before the carries
carried(cols, i, carry) ==
    IF i > Len(cols)
    THEN (IF carry = 0 THEN <<>> ELSE <<carry % Limb>> \o carried(cols, i, carry \div Limb))
    ELSE <<(cols[i] + carry) % Limb>> \o carried(cols, i + 1, (cols[i] + carry) \div Limb)

RECURSIVE borrowed(_, _, _, _)
\* the limbs of x - y for natural numbers x >= y
borrowed(x, y, i, borrow) ==
    IF i > Len(x) THEN <<>>
    ELSE IF x[i] - LimbAt(y, i) - borrow < 0
    THEN <<x[i] - LimbAt(y, i) - borrow + Limb>> \o borrowed(x, y, i + 1, 1)
    ELSE <<x[i] - LimbAt(y, i) - borrow>> \o borrowed(x, y, i + 1, 0)

\* `x as f64` for an integer x of at most 31 bits
f64_from(x) ==
    IF x = 0 THEN f64_zero
    ELSE IF x < 0 THEN f64_round(1, carried(<<0 - x>>, 1, 0), 0, FALSE)
    ELSE f64_round(0, carried(<<x>>, 1, 0), 0, FALSE)

\* the product of two significands before the carries
mant_product(a, b) ==
    << a[1] * b[1],
       a[1] * b[2] + a[2] * b[1],
       a[1] * b[3] + a[2] * b[2] + a[3] * b[1],
       a[1] * b[4] + a[2] * b[3] + a[3] * b[2] + a[4] * b[1],
       a[2] * b[4] + a[3] * b[3] + a[4] * b[2],
       a[3] * b[4] + a[4] * b[3],
       a[4] * b[4] >>

\* x * y
f64_mul(x, y) ==
    IF x.class = "nan" \/ y.class = "nan" THEN f64_nan
    ELSE IF x.class = "inf" \/ y.class = "inf"
    THEN (IF x.class = "zero" \/ y.class = "zero" THEN f64_nan
          ELSE f64_inf((x.sign + y.sign) % 2))
    ELSE IF x.class = "zero" \/ y.class = "zero" THEN f64_zero
    ELSE f64_round((x.sign + y.sign) % 2,
                   carried(mant_product(x.mant, y.mant), 1, 0),
                   x.exp + y.exp, FALSE)

\* |x| < |y| for finite non-zero x and y
fin_less(x, y) ==
    \/ x.exp < y.exp
    \/ /\ x.exp = y.exp
       /\ \/ x.mant[4] < y.mant[4]
          \/ x.mant[4] = y.mant[4] /\ x.mant[3] < y.mant[3]
          \/ x.mant[4] = y.mant[4] /\ x.mant[3] = y.mant[3]
                /\ x.mant[2] < y.mant[2]
          \/ x.mant[4] = y.mant[4] /\ x.mant[3] = y.mant[3]
                /\ x.mant[2] = y.mant[2] /\ x.mant[1] < y.mant[1]

\* the distance between two exponents beyond which the smaller operand of a
\* sum only says on which side of the larger one the exact result lies
FarApart == 64

\* the limbs of the significand m * 2^d, d <= FarApart
mant_shifted(m, d) ==
    Repeat(0, d \div LimbBits)
    \o carried(<<m[1] * Pow2(d % LimbBits), m[2] * Pow2(d % LimbBits),
                 m[3] * Pow2(d % LimbBits), m[4] * Pow2(d % LimbBits)>>, 1, 0)

RECURSIVE added(_, _, _, _)
\* the limbs of x + y for natural numbers of which x has the more limbs
added(x, y, i, carry) ==
    IF i > Len(x) THEN (IF carry = 0 THEN <<>> ELSE <<carry>>)
    ELSE <<((x[i] + LimbAt(y, i) + carry) % Limb)>>
         \o added(x, y, i + 1, (x[i] + LimbAt(y, i) + carry) \div Limb)

\* |hi| + |lo| (opposite signs: |hi| - |lo|) for finite non-zero |hi| > |lo|,
\* given the limbs x of hi's significand in units of 2^exp and the limbs y
\* of lo's; the sum exact, then rounded
sum_at(hi, x, y, exp, subtract) ==
    f64_round(hi.sign,
              IF subtract THEN borrowed(x, y, 1, 0) ELSE added(x, y, 1, 0),
              exp, FALSE)

\* hi + lo for finite non-zero hi and lo, |hi| >= |lo|; a lo more than
\* FarApart below hi counts as one unit FarApart below
sum_ordered(hi, lo) ==
    IF hi.sign # lo.sign /\ hi.exp = lo.exp /\ hi.mant = lo.mant THEN f64_zero
    ELSE IF hi.exp - lo.exp > FarApart
    THEN sum_at(hi, mant_shifted(hi.mant, FarApart), <<1>>,
                hi.exp - FarApart, hi.sign # lo.sign)
    ELSE sum_at(hi, mant_shifted(hi.mant, hi.exp - lo.exp), lo.mant,
                lo.exp, hi.sign # lo.sign)

\* x + y
f64_add(x, y) ==
    IF x.class = "nan" \/ y.class = "nan" THEN f64_nan
    ELSE IF x.class = "inf"
    THEN (IF y.class = "inf" /\ y.sign # x.sign THEN f64_nan ELSE x)
    ELSE IF y.class = "inf" THEN y
    ELSE IF x.class = "zero" THEN y
    ELSE IF y.class = "zero" THEN x
    ELSE IF fin_less(x, y) THEN sum_ordered(y, x)
    ELSE sum_ordered(x, y)

\* x - y
f64_sub(x, y) ==
    f64_add(x, IF y.class \in {"fin", "inf"} THEN [y EXCEPT !.sign = 1 - @] ELSE y)

RECURSIVE quotient(_, _, _, _)
\* the limbs of (rem * 2^(LimbBits * i) + x[1 .. i]) \div d, for rem < d < 2^16
quotient(x, d, i, rem) ==
    IF i = 0 THEN <<>>
    ELSE quotient(x, d, i - 1, (rem * Limb + x[i]) % d)
         \o <<(rem * Limb + x[i]) \div d>>

RECURSIVE remainder(_, _, _, _)
\* (rem * 2^(LimbBits * i) + x[1 .. i]) % d
remainder(x, d, i, rem) ==
    IF i = 0 THEN rem ELSE remainder(x, d, i - 1, (rem * Limb + x[i]) % d)

\* the limbs the dividend's significand is extended by, so that a quotient
\* by a divisor below 2^16 keeps 53 bits and a rounding bit
DividendLimbs == 5

\* x / (d as f64) for an integer d, |d| < 2^16
f64_div_int(x, d) ==
    IF x.class = "nan" THEN f64_nan
    ELSE IF d = 0
    THEN (IF x.class = "zero" THEN f64_nan ELSE f64_inf(x.sign))
    ELSE IF x.class = "zero" THEN f64_zero
    ELSE IF x.class = "inf" THEN f64_inf(IF d < 0 THEN 1 - x.sign ELSE x.sign)
    ELSE LET limbs == Repeat(0, DividendLimbs) \o x.mant
             divisor == IF d < 0 THEN 0 - d ELSE d
         IN f64_round(IF d < 0 THEN 1 - x.sign ELSE x.sign,
                      quotient(limbs, divisor, Len(limbs), 0),
                      x.exp - DividendLimbs * LimbBits,
                      remainder(limbs, divisor, Len(limbs), 0) # 0)

\* (n as f64) / (d as f64) for integers n and d
f64_ratio(n, d) == f64_div_int(f64_from(n), d)

\* |x| < |y| for x and y that are not NaN
magnitude_less(x, y) ==
    IF x.class = "zero" THEN y.class # "zero"
    ELSE IF x.class = "inf" THEN FALSE
    ELSE y.class = "inf" \/ (y.class = "fin" /\ fin_less(x, y))

f64_is_nan(x) == x.class = "nan"
f64_positive(x) == x.class \in {"fin", "inf"} /\ x.sign = 0

\* x >= y: neither is NaN and x is not below y
f64_ge(x, y) ==
    IF f64_is_nan(x) \/ f64_is_nan(y) THEN FALSE
    ELSE IF x.class \in {"fin", "inf"} /\ x.sign = 1
    THEN y.class \in {"fin", "inf"} /\ y.sign = 1 /\ ~magnitude_less(y, x)
    ELSE IF y.class \in {"fin", "inf"} /\ y.sign = 1 THEN TRUE
    ELSE ~magnitude_less(x, y)

(***************************************************************************)
(* lib.rs: generate_probability_distribution.                              *)
(*                                                                         *)
(* Every entry of combined_char_probabilities is computed as the code      *)
(* computes it, one f64 operation after the other.  The easing scales are  *)
(* f64 values without a fraction, given as integers: a count plus a scale  *)
(* and a row sum plus a multiple of a scale are then integers that f64     *)
(* holds exactly, and the first rounding is that of their quotient.        *)
(***************************************************************************)
unwrap_or(opt, default) == IF opt = None THEN default ELSE opt[1]

\* `char_seq.len()-1-i` for i in 0..3 goes below zero when len < 3
window_underflows(char_seq) == Len(char_seq) - 1 - 2 < 0

\* char_4_sequence[4-2-i] = *char_seq.get(char_seq.len()-1-i).unwrap_or(&null);
\* a wrapped index is past the end of the slice, so get() is None there.
char_4_window(char_seq) ==
    [k \in 1 .. 4 |->
        IF k = 4 THEN ValidChar_null
        ELSE LET i == 3 - k IN
             IF Len(char_seq) - 1 - i >= 0 THEN char_seq[Len(char_seq) - i]
             ELSE ValidChar_null]

\* the array f with every entry evaluated once
Array(f) == SubSeq(f, 1, Len(f))

RECURSIVE f64_sum(_, _, _)
\* iter().sum::<f64>(): acc + q[i] + q[i + 1] + ..., added from the left; the
\* sum of q is f64_sum(q, 1, f64_zero)
f64_sum(q, i, acc) ==
    IF i > Len(q) THEN acc ELSE f64_sum(q, i + 1, f64_add(acc, q[i]))

\* (count as f64 + scale) / (sum as f64 + (scale * V as f64)) for a counter
\* of a row of V counters
positive_ratio(count, sum, pos_easing_scale, V) ==
    f64_ratio(count + pos_easing_scale, sum + pos_easing_scale * V)

\* (inv as f64 + scale) / (sum as f64 + (neg_easing_scale * V as f64)), where
\* inv = sum - count is what the row counted for the other entries
negative_ratio(count, sum, scale, neg_easing_scale, V) ==
    f64_ratio((sum - count) + scale, sum + neg_easing_scale * V)

\* combined_char_probabilities[i] as first assigned (lines 209-216), given
\* the counters of entry i and the sums of the two rows; the numerator of
\* the negative ratio is eased by pos_easing_scale
char_probability(pos_count, pos_char_sum, neg_count, neg_char_sum, pos_easing_scale, neg_easing_scale) ==
    IF neg_char_sum = 0
    THEN positive_ratio(pos_count, pos_char_sum, pos_easing_scale,
                        ValidChar_VARIANTCOUNT)
    ELSE f64_mul(positive_ratio(pos_count, pos_char_sum, pos_easing_scale,
                                ValidChar_VARIANTCOUNT),
                 negative_ratio(neg_count, neg_char_sum, pos_easing_scale,
                                neg_easing_scale, ValidChar_VARIANTCOUNT))

\* combined_type_p of type i, 0-based (lines 226-229)
combined_type_p(pos_type_row, neg_type_row, i, pos_easing_scale, neg_easing_scale) ==
    f64_mul(positive_ratio(pos_type_row[1][i + 1], pos_type_row[2],
                           pos_easing_scale, CharType_VARIANTCOUNT),
            negative_ratio(neg_type_row[1][i + 1], neg_type_row[2],
                           neg_easing_scale, neg_easing_scale,
                           CharType_VARIANTCOUNT))

\* the 29 entries after the first loop; `unseen` is the value of the entries
\* whose two counters are 0
char_probabilities(pos_row, neg_row, pos_easing_scale, neg_easing_scale, unseen) ==
    Array([k \in 1 .. ValidChar_VARIANTCOUNT |->
              IF pos_row[1][k] = 0 /\ neg_row[1][k] = 0 THEN unseen
              ELSE char_probability(pos_row[1][k], pos_row[2],
                                    neg_row[1][k], neg_row[2],
                                    pos_easing_scale, neg_easing_scale)])

\* the 10 values of combined_type_p
type_probabilities(pos_type_row, neg_type_row, pos_easing_scale, neg_easing_scale) ==
    Array([t \in 1 .. CharType_VARIANTCOUNT |->
              combined_type_p(pos_type_row, neg_type_row, t - 1,
                              pos_easing_scale, neg_easing_scale)])

\* the CharType try_from maps entry i to, after the context char_4_sequence
mapped_char_type(char_4_sequence, i) ==
    CharType_try_from([char_4_sequence EXCEPT ![4] = ALLCHARS[i + 1]])

\* the entries after `combined_char_probabilities[j] *= combined_type_p`,
\* given the 10 values of combined_type_p
with_types(probabilities, type_p, char_4_sequence) ==
    Array([k \in 1 .. ValidChar_VARIANTCOUNT |->
              f64_mul(probabilities[k],
                      type_p[mapped_char_type(char_4_sequence, k - 1) + 1])])

\* the slice name_sizes.0[0..character_count] is out of range (a panic)
\* when character_count exceeds the Vec's length
sizes_slice_panics(sizes, character_count) == character_count > Len(sizes[1])

\* the slice taken as name_sizes.0[0..=character_count], the names of length
\* character_count included when the Vec holds that entry
sizes_slice_inclusive(sizes, character_count) ==
    SubSeq(sizes[1], 1, IF character_count + 1 <= Len(sizes[1])
                        THEN character_count + 1 ELSE character_count)

\* name_sizes.0[0..character_count], the end of the range excluded
sizes_slice(sizes, character_count) == SubSeq(sizes[1], 1, character_count)

\* probability_end_here: the sum of x as f64 / name_sizes.1 as f64 over the
\* slice, each quotient rounded and the quotients added from the left
probability_end_here(slice, total) ==
    f64_sum([k \in 1 .. Len(slice) |-> f64_ratio(slice[k], total)], 1, f64_zero)

\* probability_ends_in_future = 1.0 - probability_end_here
probability_ends_in_future(end_here) == f64_sub(f64_from(1), end_here)

\* the entries after the length step (lines 239-242), given the factor
\* probability_ends_in_future / 29.0 of the entries 0..27
with_length(probabilities, end_here, future_share) ==
    Array([k \in 1 .. ValidChar_VARIANTCOUNT |->
              IF k < ValidChar_VARIANTCOUNT
              THEN f64_mul(probabilities[k], future_share)
              ELSE f64_mul(probabilities[k], end_here)])

\* the entries after the squaring step (lines 245-250)
squared(probabilities, square) ==
    IF square
    THEN Array([k \in 1 .. ValidChar_VARIANTCOUNT |->
                   f64_mul(probabilities[k], probabilities[k])])
    ELSE probabilities

\* lines 252-256: Err when the sum is NaN, otherwise the Ok value
distribution(probabilities, sum_of_probabilities, char_4_sequence) ==
    IF f64_is_nan(sum_of_probabilities) THEN Err
    ELSE [kind |-> "ok", weight |-> probabilities, sum |-> sum_of_probabilities,
          char_4_sequence |-> char_4_sequence]

\* lines 252-256 on the entries as they are after the squaring step
summed(probabilities, char_4_sequence) ==
    distribution(probabilities, f64_sum(probabilities, 1, f64_zero),
                 char_4_sequence)

\* the steps after the type loop, given probability_end_here
finished(probabilities, end_here, square, char_4_sequence) ==
    summed(squared(with_length(probabilities, end_here,
                               f64_div_int(probability_ends_in_future(end_here),
                                           ValidChar_VARIANTCOUNT)),
                   square),
           char_4_sequence)

\* lines 206-256 of generate_probability_distribution, given the four rows
\* <<counters, sum>>
combine(pos_row, neg_row, pos_type_row, neg_type_row, sizes, character_count, pos_easing_scale, neg_easing_scale, square, char_4_sequence) ==
    IF sizes_slice_panics(sizes, character_count) THEN Panic
    ELSE finished(
             with_types(
                 char_probabilities(pos_row, neg_row,
                                    pos_easing_scale, neg_easing_scale,
                                    char_probability(0, pos_row[2], 0, neg_row[2],
                                                     pos_easing_scale,
                                                     neg_easing_scale)),
                 type_probabilities(pos_type_row, neg_type_row,
                                    pos_easing_scale, neg_easing_scale),
                 char_4_sequence),
             probability_end_here(sizes_slice(sizes, character_count), sizes[2]),
             square,
             [char_4_sequence EXCEPT ![4] = ValidChar_null])

\* generate_probability_distribution: [kind |-> "panic"], [kind |-> "err"] or
\*   [kind |-> "ok", weight, sum, char_4_sequence]
\* where weight[i + 1] is combined_char_probabilities[i] and sum is
\* sum_of_probabilities.
generate_probability_distribution(self, char_seq, char_type_seq, character_count, pos_easing_scale_opt, neg_easing_scale_opt, square_probabilities, checks) ==
    IF checks /\ window_underflows(char_seq) THEN Panic
    ELSE IF get_row_and_sum(self.positive_char_samples, char_seq).kind # "ok" THEN Err
    ELSE IF get_row_and_sum(self.negative_char_samples, char_seq).kind # "ok" THEN Err
    ELSE IF get_row_and_sum(self.positive_char_type_samples, char_type_seq).kind # "ok"
    THEN Err
    ELSE IF get_row_and_sum(self.negative_char_type_samples, char_type_seq).kind # "ok"
    THEN Err
    ELSE combine(get_row_and_sum(self.positive_char_samples, char_seq).val,
                 get_row_and_sum(self.negative_char_samples, char_seq).val,
                 get_row_and_sum(self.positive_char_type_samples, char_type_seq).val,
                 get_row_and_sum(self.negative_char_type_samples, char_type_seq).val,
                 self.name_sizes, character_count,
                 unwrap_or(pos_easing_scale_opt, 1),
                 unwrap_or(neg_easing_scale_opt, 1),
                 unwrap_or(square_probabilities, TRUE),
                 char_4_window(char_seq))

(***************************************************************************)
(* lib.rs: guess_next_char and build_random_name.                          *)
(***************************************************************************)
\* rand_float() is fastrand::f64(): a value of [0,1), 0 included, that is a
\* multiple of 2^-52.  The draws are <<k, DrawBits>> = k / 2^DrawBits.
Draws == {<<k, DrawBits>> : k \in 0 .. (Pow2(DrawBits) - 1)}

\* the f64 a draw is: draw[1] * 2^(-draw[2])
f64_of_draw(draw) ==
    IF draw[1] = 0 THEN f64_zero
    ELSE [f64_from(draw[1]) EXCEPT !.exp = @ - draw[2]]

RECURSIVE find_map(_, _, _)
\* char_probabilities.into_iter().enumerate().find_map(..) from entry i on
\* (0-based): the closure returns Some(i) when p >= random_pick, and
\* otherwise subtracts p from random_pick.  Some(i) is i, None is
\* ValidChar_VARIANTCOUNT.
find_map(weight, i, random_pick) ==
    IF i = ValidChar_VARIANTCOUNT THEN ValidChar_VARIANTCOUNT
    ELSE IF f64_ge(weight[i + 1], random_pick) THEN i
    ELSE find_map(weight, i + 1, f64_sub(random_pick, weight[i + 1]))

\* the ValidChar and CharType guess_next_char returns for index_pick
picked(index_pick, char_4_sequence) ==
    IF index_pick = ValidChar_VARIANTCOUNT THEN Err
    ELSE Ok(<<ALLCHARS[index_pick + 1],
              CharType_try_from([char_4_sequence EXCEPT ![4] = ALLCHARS[index_pick + 1]])>>)

\* lines 277-287 of guess_next_char, given the distribution and the draw:
\* random_pick = rand_float() * sum_of_probabilities
pick_from(dist, draw) ==
    IF dist.kind # "ok" THEN [kind |-> dist.kind]
    ELSE picked(find_map(dist.weight, 0, f64_mul(f64_of_draw(draw), dist.sum)),
                dist.char_4_sequence)

\* guess_next_char with the value `draw` returned by rand_float():
\* Panic, Err or Ok(<<ValidChar, CharType>>)
guess_next_char(self, char_seq, char_type_seq, current_char_count, draw, checks) ==
    pick_from(generate_probability_distribution(
                  self, char_seq, char_type_seq, current_char_count,
                  None, None, None, checks),
              draw)

\* hard_stop.unwrap_or(16)
DefaultHardStop == 16

\* `as u8`
as_u8(x) == x % 256

\* the loop condition with the length compared after the push, so that one
\* more char than hard_stop is pushed
loop_condition_after_push(nc, string, stop) ==
    nc # ValidChar_null /\ Len(string) # unwrap_or(stop, DefaultHardStop) + 1

\* the condition of the while loop of build_random_name
loop_condition(nc, string, stop) ==
    nc # ValidChar_null /\ Len(string) # unwrap_or(stop, DefaultHardStop)

(***************************************************************************)
(* The state machine.                                                      *)
(***************************************************************************)
Self ==
    [positive_char_samples |-> positive_char_samples,
     negative_char_samples |-> negative_char_samples,
     positive_char_type_samples |-> positive_char_type_samples,
     negative_char_type_samples |-> negative_char_type_samples,
     name_sizes |-> name_sizes]

SetSelf(self) ==
    /\ positive_char_samples' = self.positive_char_samples
    /\ negative_char_samples' = self.negative_char_samples
    /\ positive_char_type_samples' = self.positive_char_type_samples
    /\ negative_char_type_samples' = self.negative_char_type_samples
    /\ name_sizes' = self.name_sizes

\* chars the input buffers of the model hold
Char_n == 110
Char_b == 98
Char_z == 122
Char_upper_a == 65
Char_brace == 123
Char_underscore == 95

\* "ann", then an absent slot, then a slot that is ignored
Text_ann == <<Some(Char_a), Some(Char_n), Some(Char_n), None, Some(Char_z)>>
\* the empty name
Text_empty == <<None>>
\* an upper-case letter and a char past 'z' in mid-sample
Text_brace == <<Some(Char_upper_a), Some(Char_brace), Some(Char_b), None>>
\* a char below 'a': the padding char of Name::new
Text_underscore == <<Some(Char_a), Some(Char_underscore), None>>
\* a buffer with no absent slot
Text_full == <<Some(Char_a), Some(Char_nul)>>
\* a buffer of length 0
Text_zero == <<>>

Texts == {Text_ann, Text_empty, Text_brace, Text_underscore, Text_full, Text_zero}

\* hard_stop arguments of build_random_name
HardStops == {None, Some(0), Some(1), Some(3)}

\* contexts and positions generate_probability_distribution is queried with
QueryCharSeqs == {Repeat(ValidChar_null, N), Repeat(ValidChar_n, N),
                  Repeat(ValidChar_n, N - 1), <<>>}
QueryTypeSeqs == {Repeat(Null, N), Repeat(Nasal, N - 1)}
QueryPositions == 0 .. MaxPosition

\* ghost: the multiset of the read_sample calls that returned Ok
Ingested(test_type, text) ==
    IF <<test_type, text>> \in DOMAIN history THEN history[<<test_type, text>>] ELSE 0

RECURSIVE BagSize(_)
BagSize(b) ==
    IF DOMAIN b = {} THEN 0
    ELSE LET e == CHOOSE x \in DOMAIN b : TRUE
         IN b[e] + BagSize([x \in DOMAIN b \ {e} |-> b[x]])

SamplesRead == BagSize(history)

IdleBuild ==
    /\ pc' = "idle"
    /\ hard_stop' = None
    /\ char_array' = Repeat(ValidChar_null, N)
    /\ char_type_array' = Repeat(Null, N)
    /\ name_string' = <<>>
    /\ next_char' = ValidChar_null
    /\ next_char_type' = Null
    /\ guess_calls' = 0
    /\ build_result' = None

Init ==
    /\ overflow_checks \in BOOLEAN
    /\ positive_char_samples = NameExperiments_new.positive_char_samples
    /\ negative_char_samples = NameExperiments_new.negative_char_samples
    /\ positive_char_type_samples = NameExperiments_new.positive_char_type_samples
    /\ negative_char_type_samples = NameExperiments_new.negative_char_type_samples
    /\ name_sizes = NameExperiments_new.name_sizes
    /\ crashed = FALSE
    /\ history = [x \in {} |-> 0]
    /\ last_read = [op |-> "new"]
    /\ last_call = [op |-> "none"]
    /\ pc = "idle"
    /\ hard_stop = None
    /\ char_array = Repeat(ValidChar_null, N)
    /\ char_type_array = Repeat(Null, N)
    /\ name_string = <<>>
    /\ next_char = ValidChar_null
    /\ next_char_type = Null
    /\ guess_calls = 0
    /\ build_result = None

\* the effect of read_sample(text, test_type) on the model; `before` is the
\* model the call was made on
Reading(text, test_type) ==
    /\ LET r == read_sample(Self, text, test_type, overflow_checks) IN
       /\ SetSelf(r.self)
       /\ crashed' = (r.kind = "panic")
       /\ history' = IF r.kind = "ok"
                     THEN (<<test_type, text>> :> (Ingested(test_type, text) + 1)) @@ history
                     ELSE history
       /\ last_read' = [op |-> "read_sample", test_type |-> test_type, text |-> text,
                        result |-> r.kind, observed |-> r.observed,
                        valid_chars |-> r.valid_chars, char_types |-> r.char_types,
                        before |-> Self]
    /\ IdleBuild
    /\ UNCHANGED <<overflow_checks, last_call>>

\* read_positive_sample / read_negative_sample
ReadSample(text, test_type) ==
    /\ ~crashed
    /\ pc = "idle"
    /\ SamplesRead < MaxSamples
    /\ Reading(text, test_type)

read_positive_sample(text) == ReadSample(text, Pos)

read_negative_sample(text) == ReadSample(text, Neg)

\* the value d a direct call of generate_probability_distribution returned
Queried(char_seq, char_type_seq, character_count, d) ==
    /\ crashed' = (d.kind = "panic")
    /\ last_call' = [op |-> "generate_probability_distribution",
                     char_seq |-> char_seq, char_type_seq |-> char_type_seq,
                     character_count |-> character_count, result |-> d]

\* a direct call of generate_probability_distribution with the default scales
QueryDistribution(char_seq, char_type_seq, character_count) ==
    /\ ~crashed
    /\ pc = "idle"
    /\ Queried(char_seq, char_type_seq, character_count,
               generate_probability_distribution(
                   Self, char_seq, char_type_seq, character_count,
                   None, None, None, overflow_checks))
    /\ pc' = "done"
    /\ UNCHANGED <<overflow_checks, model_vars, history, last_read, hard_stop,
                   char_array, char_type_array, name_string, next_char,
                   next_char_type, guess_calls, build_result>>

\* the outcome of one guess_next_char call inside build_random_name
AfterGuess(g, chars, types, string, draw) ==
    /\ guess_calls' = guess_calls + 1
    /\ last_call' = [op |-> "guess_next_char", char_seq |-> chars,
                   char_type_seq |-> types, current_char_count |-> as_u8(Len(string)),
                   draw |-> draw, result |-> g]
    /\ char_array' = chars
    /\ char_type_array' = types
    /\ name_string' = string
    /\ IF g.kind = "ok"
       THEN /\ next_char' = g.val[1]
            /\ next_char_type' = g.val[2]
            /\ pc' = "loop"
            /\ build_result' = None
            /\ crashed' = FALSE
       ELSE /\ UNCHANGED <<next_char, next_char_type>>
            /\ pc' = "done"
            /\ build_result' = g
            /\ crashed' = (g.kind = "panic")

\* build_random_name(hard_stop) up to the first guess_next_char
BuildStart(stop, draw) ==
    /\ ~crashed
    /\ pc = "idle"
    /\ hard_stop' = stop
    /\ AfterGuess(guess_next_char(Self, Repeat(ValidChar_null, N), Repeat(Null, N),
                                  as_u8(0), draw, overflow_checks),
                  Repeat(ValidChar_null, N), Repeat(Null, N), <<>>, draw)
    /\ UNCHANGED <<overflow_checks, model_vars, history, last_read>>

\* one iteration of the while loop of build_random_name
BuildStep(draw) ==
    /\ pc = "loop"
    /\ loop_condition(next_char, name_string, hard_stop)
    /\ LET string == Append(name_string, char_from(next_char))
           chars == RotatePush(char_array, next_char)
           types == RotatePush(char_type_array, next_char_type)
       IN AfterGuess(guess_next_char(Self, chars, types, as_u8(Len(string)), draw,
                                     overflow_checks),
                     chars, types, string, draw)
    /\ UNCHANGED <<overflow_checks, model_vars, history, last_read, hard_stop>>

\* the loop ends and build_random_name returns Ok(name_string)
BuildReturn ==
    /\ pc = "loop"
    /\ ~loop_condition(next_char, name_string, hard_stop)
    /\ pc' = "done"
    /\ build_result' = Ok(name_string)
    /\ last_call' = [op |-> "build_random_name"]
    /\ UNCHANGED <<overflow_checks, model_vars, history, last_read, crashed, hard_stop,
                   char_array, char_type_array, name_string, next_char,
                   next_char_type, guess_calls>>

\* the caller drops the value the call returned
Drop ==
    /\ ~crashed
    /\ pc = "done"
    /\ IdleBuild
    /\ last_call' = [op |-> "none"]
    /\ UNCHANGED <<overflow_checks, model_vars, history, last_read, crashed>>

Next ==
    \/ \E text \in Texts : read_positive_sample(text)
    \/ \E text \in Texts : read_negative_sample(text)
    \/ \E cs \in QueryCharSeqs, ts \in QueryTypeSeqs, p \in QueryPositions :
          QueryDistribution(cs, ts, p)
    \/ \E stop \in HardStops, draw \in Draws : BuildStart(stop, draw)
    \/ \E draw \in Draws : BuildStep(draw)
    \/ BuildReturn
    \/ Drop

Spec == Init /\ [][Next]_vars

\* the ingest calls alone
NextIngest ==
    \/ \E text \in Texts : read_positive_sample(text)
    \/ \E text \in Texts : read_negative_sample(text)

SpecIngest == Init /\ [][NextIngest]_vars

(***************************************************************************)
(* build_random_name on the models of a few short samples.  The names a    *)
(* build can reach are bounded by the longest sample ingested (a guess     *)
(* beyond it panics), so short samples keep the runs of build_random_name  *)
(* short, whatever the hard stop.                                          *)
(***************************************************************************)
\* a sample of one letter
Text_a == <<Some(Char_a), None>>

BuildTexts == {Text_empty, Text_a}

NextBuild ==
    \/ \E text \in BuildTexts : read_positive_sample(text)
    \/ \E text \in BuildTexts : read_negative_sample(text)
    \/ \E stop \in HardStops, draw \in Draws : BuildStart(stop, draw)
    \/ \E draw \in Draws : BuildStep(draw)
    \/ BuildReturn
    \/ Drop

SpecBuild == Init /\ [][NextBuild]_vars

(***************************************************************************)
(* The conversions and the classifier on their own: an input is drawn, and *)
(* one step applies the function to it.  last_call holds the input, then   *)
(* the input with the value returned.                                      *)
(***************************************************************************)
\* the chars drawn are the code points 0 .. MaxChar: ASCII and the code
\* points up to U+212A KELVIN SIGN, which holds the two code points outside
\* ASCII whose lowercase is an ASCII letter (U+0130 and U+212A)
MaxChar == 8490
Chars == 0 .. MaxChar

\* the 4-symbol windows drawn: value[4] is the most recent symbol
OldestSymbols == {ValidChar_null, ValidChar_a, ValidChar_e, ValidChar_n,
                  ValidChar_t, ValidChar_y}
CurrentSymbols == {ValidChar_y, ValidChar_h, ValidChar_c, ValidChar_g,
                   ValidChar_e, ValidChar_a, ValidChar_n}
Windows ==
    {<<c3, c2, c1, cur>> : c3 \in OldestSymbols, c2 \in ValidChars,
                           c1 \in ValidChars, cur \in CurrentSymbols}

\* the contexts get_row_index is given: index 1 holds the oldest symbol
ContextSymbols == {ValidChar_a, ValidChar_b, ValidChar_n, ValidChar_null}
Contexts == [1 .. N -> ContextSymbols] \cup {Repeat(ValidChar_a, N - 1)}

PureInputs ==
    {[op |-> "input", kind |-> "char", c |-> c] : c \in Chars}
    \cup {[op |-> "input", kind |-> "window", value |-> w] : w \in Windows}
    \cup {[op |-> "input", kind |-> "context", char_seq |-> cs] : cs \in Contexts}

PureInit ==
    /\ overflow_checks \in BOOLEAN
    /\ positive_char_samples = NameExperiments_new.positive_char_samples
    /\ negative_char_samples = NameExperiments_new.negative_char_samples
    /\ positive_char_type_samples = NameExperiments_new.positive_char_type_samples
    /\ negative_char_type_samples = NameExperiments_new.negative_char_type_samples
    /\ name_sizes = NameExperiments_new.name_sizes
    /\ crashed = FALSE
    /\ history = [x \in {} |-> 0]
    /\ last_read = [op |-> "new"]
    /\ last_call \in PureInputs
    /\ pc = "pure"
    /\ hard_stop = None
    /\ char_array = Repeat(ValidChar_null, N)
    /\ char_type_array = Repeat(Null, N)
    /\ name_string = <<>>
    /\ next_char = ValidChar_null
    /\ next_char_type = Null
    /\ guess_calls = 0
    /\ build_result = None

\* an input of the kind has been drawn and not yet used
Drawn(kind) == pc = "pure" /\ last_call.op = "input" /\ last_call.kind = kind

\* the value a pure call returned is recorded; nothing else changes
Returned(call) ==
    /\ last_call' = call
    /\ UNCHANGED <<overflow_checks, model_vars, crashed, history, last_read,
                   build_vars>>

\* ValidChar::try_from(&c), and char::from of the ValidChar when it is Ok
Encode ==
    /\ Drawn("char")
    /\ LET r == ValidChar_try_from(last_call.c, overflow_checks) IN
       Returned([op |-> "ValidChar::try_from", c |-> last_call.c, result |-> r,
                 decoded |-> IF r.kind = "ok" THEN Some(char_from(r.val)) ELSE None])

\* CharType::try_from(&value)
Classify ==
    /\ Drawn("window")
    /\ Returned([op |-> "CharType::try_from", value |-> last_call.value,
                 result |-> CharType_try_from(last_call.value)])

\* get_row_index(char_seq) on a table of V = 29
RowIndex ==
    /\ Drawn("context")
    /\ Returned([op |-> "get_row_index", char_seq |-> last_call.char_seq,
                 result |-> get_row_index(positive_char_samples, last_call.char_seq)])

NextPure == Encode \/ Classify \/ RowIndex

SpecPure == PureInit /\ [][NextPure]_vars

(***************************************************************************)
(* One sample ingested until its counters hold 255, and a second sample    *)
(* that shares observations with it.                                       *)
(***************************************************************************)
\* "aba": its first symbol observation and its first two category
\* observations are those of "ann"
Text_aba == <<Some(Char_a), Some(Char_b), Some(Char_a), None>>

\* the read_positive_sample calls of "ann" made past the 255th
MaxDropped == 2

SaturateRead(text) ==
    /\ ~crashed
    /\ pc = "idle"
    /\ IF text = Text_ann THEN Ingested(Pos, text) < U8_MAX + MaxDropped
       ELSE Ingested(Pos, text) < MaxSamples
    /\ Reading(text, Pos)

NextSaturate == \E text \in {Text_ann, Text_aba} : SaturateRead(text)

SpecSaturate == Init /\ [][NextSaturate]_vars

(***************************************************************************)
(* generate_probability_distribution called with easing scales and the     *)
(* squaring switch given by the caller.                                    *)
(***************************************************************************)
ScaledTexts == {Text_ann, Text_empty}
\* the easing scales passed: the default, 0.0, 2.0 and -1.0
Scales == {None, Some(0), Some(2), Some(0 - 1)}
Squares == {None, Some(FALSE)}
ScaledCharSeqs == {Repeat(ValidChar_null, N), Repeat(ValidChar_n, N)}

\* a call of generate_probability_distribution with the scales a_pos, a_neg
\* and the switch sq
QueryScaled(char_seq, character_count, a_pos, a_neg, sq) ==
    /\ ~crashed
    /\ pc = "idle"
    /\ LET d == generate_probability_distribution(
                    Self, char_seq, Repeat(Null, N), character_count,
                    a_pos, a_neg, sq, overflow_checks)
       IN /\ crashed' = (d.kind = "panic")
          /\ last_call' = [op |-> "generate_probability_distribution",
                           char_seq |-> char_seq, char_type_seq |-> Repeat(Null, N),
                           character_count |-> character_count,
                           pos_easing_scale |-> a_pos, neg_easing_scale |-> a_neg,
                           square_probabilities |-> sq, result |-> d]
    /\ pc' = "done"
    /\ UNCHANGED <<overflow_checks, model_vars, history, last_read, hard_stop,
                   char_array, char_type_array, name_string, next_char,
                   next_char_type, guess_calls, build_result>>

NextScaled ==
    \/ \E text \in ScaledTexts : read_positive_sample(text)
    \/ \E text \in ScaledTexts : read_negative_sample(text)
    \/ \E cs \in ScaledCharSeqs, pos \in QueryPositions, a_pos \in Scales,
          a_neg \in Scales, sq \in Squares : QueryScaled(cs, pos, a_pos, a_neg, sq)
    \/ Drop

SpecScaled == Init /\ [][NextScaled]_vars

(***************************************************************************)
(* Properties of build_random_name.                                        *)
(***************************************************************************)
\* hard_stop.unwrap_or(16) of the call in progress or just ended
HardStopValue == unwrap_or(hard_stop, DefaultHardStop)

\* build_random_name returned Ok(name_string)
BuildReturned == pc = "done" /\ last_call.op = "build_random_name"

\* build_random_name ended on a guess_next_char that returned Err or panicked
BuildFailed == pc = "done" /\ last_call.op = "guess_next_char"

\* at least one read_positive_sample returned Ok
PositiveIngested == \E text \in Texts : Ingested(Pos, text) > 0

\* C1: a string returned by build_random_name(h) has at most h characters,
\* None meaning 16, whatever the model state and the draws.
C1_LengthWithinHardStop ==
    BuildReturned =>
        /\ build_result.kind = "ok"
        /\ Len(build_result.val) <= HardStopValue

\* C1 witness: a call with hard_stop = Some(1) returned a string of exactly
\* one char, the loop having been cut by the hard stop.
C1_Witness ==
    /\ BuildReturned
    /\ hard_stop = Some(1)
    /\ Len(build_result.val) = 1
    /\ next_char # ValidChar_null

\* C2 as stated: on a model that ingested at least one positive sample,
\* build_random_name(h) ends by returning Ok, never by an Err or a panic,
\* after at most h + 1 calls of guess_next_char.
C2_BuildAlwaysOk ==
    (PositiveIngested /\ (BuildReturned \/ BuildFailed)) =>
        /\ BuildReturned
        /\ guess_calls <= HardStopValue + 1

\* C2 witness of the failure: without overflow checks, after the positive
\* sample of length 0 only, the guess at position 2 panics on the slice
\* name_sizes.0[0..2] of a Vec of length 1.
C2_SlicePanic ==
    /\ ~overflow_checks
    /\ history = (<<Pos, Text_empty>> :> 1)
    /\ BuildFailed
    /\ build_result = Panic
    /\ last_call.current_char_count = 2

(***************************************************************************)
(* Properties of generate_probability_distribution and guess_next_char.    *)
(***************************************************************************)
\* the model has ingested the positive sample "ann" and nothing else
AnnOnly == history = (<<Pos, Text_ann>> :> 1)

\* generate_probability_distribution of the current model, default scales
Distribution(char_seq, char_type_seq, character_count) ==
    generate_probability_distribution(Self, char_seq, char_type_seq, character_count,
                                      None, None, None, overflow_checks)

\* the call returned Ok and gave symbol c a probability > 0
PositiveAt(d, c) == d.kind = "ok" /\ f64_positive(d.weight[c + 1])

\* the call returned Ok and gave symbol c the probability 0
ZeroAt(d, c) == d.kind = "ok" /\ d.weight[c + 1] = f64_zero

\* C3 as stated: after only the positive sample "ann" (N = 2), the
\* distribution for the context [n, n], the categories [Nasal, Nasal] and
\* position 3 gives the terminator a probability > 0.
C3_TerminatorAfterAnn ==
    AnnOnly =>
        PositiveAt(Distribution(<<ValidChar_n, ValidChar_n>>, <<Nasal, Nasal>>, 3),
                   ValidChar_null)

\* C3 witness of the failure: without overflow checks that call returns Ok
\* with the terminator at probability 0.
C3_TerminatorZero ==
    /\ AnnOnly
    /\ ~overflow_checks
    /\ last_call.op = "generate_probability_distribution"
    /\ last_call.char_seq = <<ValidChar_n, ValidChar_n>>
    /\ last_call.character_count = 3
    /\ ZeroAt(last_call.result, ValidChar_null)

\* C4 as stated: after only the positive sample "ann" (N = 2), each step of
\* generating "ann" has a probability > 0 at its position: a at 0, n at 1,
\* n at 2 and the terminator at 3.
C4_AnnReproducible ==
    AnnOnly =>
        /\ PositiveAt(Distribution(<<ValidChar_null, ValidChar_null>>, <<Null, Null>>, 0),
                      ValidChar_a)
        /\ PositiveAt(Distribution(<<ValidChar_null, ValidChar_a>>, <<Null, VowelRoot>>, 1),
                      ValidChar_n)
        /\ PositiveAt(Distribution(<<ValidChar_a, ValidChar_n>>, <<VowelRoot, Nasal>>, 2),
                      ValidChar_n)
        /\ PositiveAt(Distribution(<<ValidChar_n, ValidChar_n>>, <<Nasal, Nasal>>, 3),
                      ValidChar_null)

\* C4 witness of the failure: without overflow checks, build_random_name
\* with the default hard stop, having generated three chars after only
\* "ann", is given a non-terminator by the guess at position 3.
C4_NoEndAtThree ==
    /\ AnnOnly
    /\ ~overflow_checks
    /\ hard_stop = None
    /\ pc = "loop"
    /\ Len(name_string) = 3
    /\ next_char # ValidChar_null

\* C5: once at least one sample is ingested, the first guess_next_char of
\* build_random_name (all-terminator context, position 0) never returns the
\* terminator, and build_random_name(h) with h >= 1 never returns "".
C5_FirstGuessNotTerminator ==
    SamplesRead >= 1 =>
        /\ (/\ last_call.op = "guess_next_char"
            /\ last_call.current_char_count = 0
            /\ last_call.result.kind = "ok")
           => last_call.result.val[1] # ValidChar_null
        /\ (BuildReturned /\ HardStopValue >= 1) => Len(build_result.val) >= 1

\* C5 witness: after only a sample of length 0, which records the terminator
\* after the all-terminator context, the first guess returned a symbol.
C5_Witness ==
    /\ history = (<<Pos, Text_empty>> :> 1)
    /\ last_call.op = "guess_next_char"
    /\ last_call.current_char_count = 0
    /\ last_call.draw[1] > 0
    /\ last_call.result.kind = "ok"

\* C6 as stated: after at least one read_positive_sample,
\* generate_probability_distribution returns Ok with a sum > 0 for every
\* context of N symbols, every context of N categories and every position.
C6_DistributionAlwaysOk ==
    (/\ PositiveIngested
     /\ last_call.op = "generate_probability_distribution"
     /\ Len(last_call.char_seq) = N
     /\ Len(last_call.char_type_seq) = N)
    => (last_call.result.kind = "ok" /\ f64_positive(last_call.result.sum))

\* C6 witness of the failure: without overflow checks, after only "ann",
\* the call at position 5 panics on the slice of a Vec of length 4.
C6_SlicePanic ==
    /\ AnnOnly
    /\ ~overflow_checks
    /\ last_call.op = "generate_probability_distribution"
    /\ Len(last_call.char_seq) = N
    /\ last_call.character_count = 5
    /\ last_call.result = Panic

\* C7 as stated: on a new model generate_probability_distribution returns
\* an error value for every context and every position, 0 included.
C7_NewModelErr ==
    (last_read.op = "new" /\ last_call.op = "generate_probability_distribution")
    => last_call.result = Err

\* C7 witness of the failure: without overflow checks the call at position
\* 0 on a new model returns Ok with a sum > 0.
C7_NewModelOk ==
    /\ last_read.op = "new"
    /\ ~overflow_checks
    /\ last_call.op = "generate_probability_distribution"
    /\ last_call.character_count = 0
    /\ last_call.result.kind = "ok"
    /\ f64_positive(last_call.result.sum)

(***************************************************************************)
(* Properties of read_sample.                                              *)
(***************************************************************************)
\* C8 as stated: read_positive_sample and read_negative_sample return a
\* value, Ok or Err, for every buffer: they never panic.
C8_ReadNeverPanics ==
    last_read.op = "read_sample" => last_read.result \in {"ok", "err"}

\* C8 witness of the failure: whatever the build, the buffer of length 0
\* panics on text[0].
C8_EmptyBufferPanics ==
    /\ last_read.op = "read_sample"
    /\ last_read.text = Text_zero
    /\ ~overflow_checks
    /\ last_read.result = "panic"

\* every context is terminator padding followed only by non-terminators
PaddedContext(context) ==
    \A j \in 1 .. (Len(context) - 1) :
        context[j] # ValidChar_null => context[j + 1] # ValidChar_null

\* C9 as stated: an ingest records the terminator as next symbol exactly
\* once, in its last observation, and every recorded context is terminator
\* padding followed only by non-terminator symbols.
C9_TerminatorOnlyAtEnd ==
    (last_read.op = "read_sample" /\ last_read.result = "ok") =>
        LET obs == last_read.observed IN
        /\ Len(obs) >= 1
        /\ obs[Len(obs)][2] = ValidChar_null
        /\ \A k \in 1 .. (Len(obs) - 1) : obs[k][2] # ValidChar_null
        /\ \A k \in 1 .. Len(obs) : PaddedContext(obs[k][1])

\* C9 witness of the failure: the sample 'A', '{', 'b' records the
\* terminator after [pad, a] and the context [a, terminator].
C9_TerminatorMidSample ==
    /\ last_read.op = "read_sample"
    /\ last_read.result = "ok"
    /\ last_read.text = Text_brace
    /\ \E k \in 1 .. (Len(last_read.observed) - 1) :
          /\ last_read.observed[k][2] = ValidChar_null
          /\ ~PaddedContext(last_read.observed[k + 1][1])

(***************************************************************************)
(* An NGramWeights<N, 29> table on its own, driven through add_to_weights  *)
(* until a u8 counter is full, and through finalize.  It is held in        *)
(* the variable positive_char_samples; the position "table" keeps the     *)
(* orchestrator and the generator out of these behaviours.                 *)
(***************************************************************************)
\* counters other than the one being filled are driven up to MaxLow
MaxLow == 1

\* finalize is called up to MaxFinalize times on one table
MaxFinalize == 2

\* arguments of add_to_weights: two rows, and a sequence shorter than N
TableSequences == {Repeat(ValidChar_a, N), Repeat(ValidChar_n, N),
                   Repeat(ValidChar_a, N - 1)}
TableFollowing == {ValidChar_a, ValidChar_null}
\* the calls made: two counters of the first row, one of the second, and one
\* call with the short sequence
TableCalls ==
    {call \in TableSequences \X TableFollowing :
        call[1] = Repeat(ValidChar_a, N) \/ call[2] = ValidChar_a}

\* the counters of table t that hold more than MaxLow
HighCells(t) ==
    {cell \in (DOMAIN t.weights) \X (1 .. t.V) : t.weights[cell[1]][cell[2]] > MaxLow}

TableInit ==
    /\ overflow_checks \in BOOLEAN
    /\ positive_char_samples = NGramWeights_new(ValidChar_VARIANTCOUNT)
    /\ negative_char_samples = NameExperiments_new.negative_char_samples
    /\ positive_char_type_samples = NameExperiments_new.positive_char_type_samples
    /\ negative_char_type_samples = NameExperiments_new.negative_char_type_samples
    /\ name_sizes = NameExperiments_new.name_sizes
    /\ crashed = FALSE
    /\ history = [x \in {} |-> 0]
    /\ last_read = [op |-> "new"]
    /\ last_call = [op |-> "none"]
    /\ pc = "table"
    /\ hard_stop = None
    /\ char_array = Repeat(ValidChar_null, N)
    /\ char_type_array = Repeat(Null, N)
    /\ name_string = <<>>
    /\ next_char = ValidChar_null
    /\ next_char_type = Null
    /\ guess_calls = 0
    /\ build_result = None

\* one call of add_to_weights on the table
TableAdd(sequence, following_char) ==
    /\ pc = "table"
    /\ ~crashed
    /\ LET r == add_to_weights(positive_char_samples, sequence, following_char) IN
       /\ Cardinality(HighCells(r.table)) <= 1
       /\ positive_char_samples' = r.table
       /\ last_call' = [op |-> "add_to_weights", sequence |-> sequence,
                        following_char |-> following_char, result |-> r.result]
    /\ UNCHANGED <<overflow_checks, negative_char_samples, positive_char_type_samples,
                   negative_char_type_samples, name_sizes, crashed, history,
                   last_read, build_vars>>

\* one call of finalize on the table; `before` is the table it was given
TableFinalize ==
    /\ pc = "table"
    /\ ~crashed
    /\ positive_char_samples.sum_default < MaxFinalize * positive_char_samples.V
    /\ LET r == finalize(positive_char_samples, overflow_checks) IN
       /\ positive_char_samples' = r.table
       /\ crashed' = (r.result = Panic)
       /\ last_call' = [op |-> "finalize", before |-> positive_char_samples,
                        result |-> r.result]
    /\ UNCHANGED <<overflow_checks, negative_char_samples, positive_char_type_samples,
                   negative_char_type_samples, name_sizes, history, last_read,
                   build_vars>>

NextTable ==
    \/ \E call \in TableCalls : TableAdd(call[1], call[2])
    \/ TableFinalize

SpecTable == TableInit /\ [][NextTable]_vars

(***************************************************************************)
(* The same table filled through one fixed (sequence, following_char)      *)
(* pair, from the empty table to the failed calls past 255.  `history` is  *)
(* here the ghost count of the add_to_weights calls made with the pair.    *)
(***************************************************************************)
\* failed calls made after the counter is full
MaxFailedAdds == 2

\* the pairs with a sequence of N symbols
FillCalls == {call \in TableCalls : Len(call[1]) = N}

\* ghost: the number of add_to_weights calls made with the pair
CallsMade(call) == IF call \in DOMAIN history THEN history[call] ELSE 0

FillAdd(sequence, following_char) ==
    /\ pc = "table"
    /\ ~crashed
    /\ DOMAIN history \subseteq {<<sequence, following_char>>}
    /\ CallsMade(<<sequence, following_char>>) < U8_MAX + MaxFailedAdds
    /\ LET r == add_to_weights(positive_char_samples, sequence, following_char) IN
       /\ positive_char_samples' = r.table
       /\ last_call' = [op |-> "add_to_weights", sequence |-> sequence,
                        following_char |-> following_char, result |-> r.result]
    /\ history' = (<<sequence, following_char>> :>
                      (CallsMade(<<sequence, following_char>>) + 1))
    /\ UNCHANGED <<overflow_checks, negative_char_samples, positive_char_type_samples,
                   negative_char_type_samples, name_sizes, crashed, last_read,
                   build_vars>>

NextFill == \E call \in FillCalls : FillAdd(call[1], call[2])

SpecFill == TableInit /\ [][NextFill]_vars

(***************************************************************************)
(* Properties of NGramWeights.                                             *)
(***************************************************************************)
RECURSIVE SumRange(_, _, _)
\* q[lo] + ... + q[hi], by halving the range
SumRange(q, lo, hi) ==
    IF lo > hi THEN 0
    ELSE IF lo = hi THEN q[lo]
    ELSE LET mid == (lo + hi) \div 2
         IN SumRange(q, lo, mid) + SumRange(q, mid + 1, hi)

\* the sum of the first n entries of a sequence of integers
SumSeq(q, n) == SumRange(q, 1, n)

\* the four tables of the model
Tables == {positive_char_samples, negative_char_samples,
           positive_char_type_samples, negative_char_type_samples}

\* every row's stored sum is the arithmetic sum of the row's V counters
RowSumsMatch(t) ==
    /\ \A index \in DOMAIN t.weights : SumAt(t, index) = SumSeq(t.weights[index], t.V)
    /\ \A index \in DOMAIN t.sum \ DOMAIN t.weights : t.sum[index] = 0

\* C10: in a table on which finalize has not been called, after any
\* sequence of add_to_weights calls, succeeded or failed, each row's stored
\* sum equals the arithmetic sum of the row's V counters.
C10_RowSumMatchesCounters ==
    \A t \in Tables : (~t.finalized /\ ~crashed) => RowSumsMatch(t)

\* C10 witness: an add_to_weights call failed on a counter that holds 255,
\* in a row whose other counters are not all 0.
C10_Witness ==
    /\ last_call.op = "add_to_weights"
    /\ last_call.result = Err
    /\ Len(last_call.sequence) = N
    /\ LET t == positive_char_samples
           index == get_row_index(t, last_call.sequence).val
       IN /\ RowAt(t, index)[last_call.following_char + 1] = U8_MAX
          /\ SumAt(t, index) > U8_MAX

\* the smaller of two numbers
Min(x, y) == IF x <= y THEN x ELSE y

\* table t holds nothing but counter `column` (1-based) of row `index`
OnlyCell(t, index, column) ==
    /\ DOMAIN t.weights \subseteq {index}
    /\ DOMAIN t.sum \subseteq {index}
    /\ t.sum_default = 0
    /\ \A j \in (1 .. t.V) \ {column} : RowAt(t, index)[j] = 0

\* C11: starting from an empty table, after the k-th add_to_weights of one
\* fixed (context, next) pair get_row_and_sum(context) gives counter[next] =
\* k and sum = k for k in 1..255, the calls having returned Ok; from the
\* 256th on the call returns Err and leaves counter[next] = 255 and sum =
\* 255; every other row and counter stays untouched.
C11_FillCountsToCap ==
    \A call \in DOMAIN history :
        LET k == history[call]
            t == positive_char_samples
            got == get_row_and_sum(t, call[1])
        IN /\ got.kind = "ok"
           /\ got.val[1][call[2] + 1] = Min(k, U8_MAX)
           /\ got.val[2] = Min(k, U8_MAX)
           /\ last_call.result = (IF k <= U8_MAX THEN Ok(<<>>) ELSE Err)
           /\ OnlyCell(t, get_row_index(t, call[1]).val, call[2] + 1)

\* C11 witness: the 256th call of the pair returned Err, the counter and
\* the sum holding 255.
C11_Witness ==
    \E call \in DOMAIN history :
        /\ history[call] = U8_MAX + 1
        /\ last_call.result = Err
        /\ get_row_and_sum(positive_char_samples, call[1]).val[2] = U8_MAX

(***************************************************************************)
(* Properties of the operations that take a context.                       *)
(***************************************************************************)
\* contexts of fewer than N symbols, the context of length 0 included
ShortContexts == {Repeat(ValidChar_a, k) : k \in 0 .. (N - 1)}

\* C12 as stated: given fewer than N symbols, get_row_and_sum,
\* get_mut_row_and_sum, add_to_weights and
\* generate_probability_distribution return an error value: they do not
\* panic and they change no table.
C12_ShortContextErr ==
    /\ \A t \in Tables, context \in ShortContexts :
          /\ get_row_and_sum(t, context) = Err
          /\ get_mut_row_and_sum(t, context) = Err
          /\ add_to_weights(t, context, ValidChar_a) = [table |-> t, result |-> Err]
    /\ (/\ last_call.op = "generate_probability_distribution"
        /\ (Len(last_call.char_seq) < N \/ Len(last_call.char_type_seq) < N))
       => last_call.result = Err

\* C12 witness of the failure: with overflow checks,
\* generate_probability_distribution given the context of length 0
\* panics on char_seq.len()-1-i.
C12_EmptyContextPanics ==
    /\ overflow_checks
    /\ last_call.op = "generate_probability_distribution"
    /\ last_call.char_seq = <<>>
    /\ last_call.result = Panic

(***************************************************************************)
(* Properties of finalize.                                                 *)
(***************************************************************************)
\* tables t and u hold the same counters and the same row sums
SameContents(t, u) ==
    /\ t.weights = u.weights
    /\ t.sum = u.sum
    /\ t.sum_default = u.sum_default
    /\ t.split = u.split

\* C13 as stated: once finalize has been called on a table, add_to_weights
\* and get_mut_row_and_sum return an error, no counter and no row sum
\* changes under a later operation, a further finalize included, and the
\* finalized flag stays true.
C13_FinalizedFrozen ==
    LET t == positive_char_samples IN
    /\ t.finalized =>
          \A call \in TableCalls :
              /\ add_to_weights(t, call[1], call[2]) = [table |-> t, result |-> Err]
              /\ get_mut_row_and_sum(t, call[1]) = Err
    /\ (last_call.op = "finalize" /\ last_call.before.finalized) =>
          (t.finalized /\ SameContents(t, last_call.before))

\* C13 witness of the failure: a second finalize call returned Ok and left
\* the sum of the row of [a; N] larger by V than it was.
C13_SecondFinalizeAddsV ==
    LET t == positive_char_samples
        index == get_row_index(t, Repeat(ValidChar_a, N)).val
    IN /\ last_call.op = "finalize"
       /\ last_call.before.finalized
       /\ last_call.result = Ok(<<>>)
       /\ t.weights = last_call.before.weights
       /\ SumAt(t, index) = SumAt(last_call.before, index) + t.V

(***************************************************************************)
(* Properties of the conversions between char and ValidChar.               *)
(***************************************************************************)
\* the code points of A-Z and of a-z
UpperLetters == 65 .. 90
LowerLetters == 97 .. 122

\* C14: for every letter c of a-z and A-Z, char::from(ValidChar::try_from(&c))
\* is the lowercase of c; for '-' and the apostrophe it is the char itself;
\* the terminator decodes to '\0', which none of the other 28 symbols does.
C14_DecodeEncode ==
    /\ last_call.op = "ValidChar::try_from" =>
          /\ last_call.c \in UpperLetters => last_call.decoded = Some(last_call.c + 32)
          /\ last_call.c \in LowerLetters => last_call.decoded = Some(last_call.c)
          /\ last_call.c \in {Char_dash, Char_apostrophe} =>
                last_call.decoded = Some(last_call.c)
    /\ char_from(ValidChar_null) = Char_nul
    /\ \A value \in ValidChars \ {ValidChar_null} : char_from(value) # Char_nul

\* C14 witness: the upper-case letter 'Q' was encoded and decoded to 'q'.
C14_Witness ==
    /\ last_call.op = "ValidChar::try_from"
    /\ last_call.c = 81
    /\ last_call.result = Ok(ValidChar_q)
    /\ last_call.decoded = Some(113)

(***************************************************************************)
(* Properties of the classifier.  A window is <<three back, two back,      *)
(* one back, most recent>>.                                                *)
(***************************************************************************)
\* the classifier was applied to a window whose most recent symbol is c
Classified(c) == last_call.op = "CharType::try_from" /\ last_call.value[4] = c

Vowels == {ValidChar_a, ValidChar_e, ValidChar_i, ValidChar_o, ValidChar_u}
\* the letters that are neither a vowel nor y
Consonants == (ValidChar_a .. ValidChar_z) \ (Vowels \cup {ValidChar_y})

\* C15 as stated: a y is Approximant when it is the first symbol of the
\* sequence (the slot before it holds the padding), VowelModifier after a
\* vowel and VowelRoot after a consonant.
C15_ClassifyY ==
    Classified(ValidChar_y) =>
        /\ last_call.value[3] = ValidChar_null => last_call.result = Approximant
        /\ last_call.value[3] \in Vowels => last_call.result = VowelModifier
        /\ last_call.value[3] \in Consonants => last_call.result = VowelRoot

\* C15 witness of the failure: the leading y, all three older slots
\* padding, is classified VowelRoot.
C15_LeadingYIsVowelRoot ==
    /\ Classified(ValidChar_y)
    /\ last_call.value = <<ValidChar_null, ValidChar_null, ValidChar_null, ValidChar_y>>
    /\ last_call.result = VowelRoot

\* C16: whatever the two oldest symbols are, h is Affricate after c, Silent
\* after g and Fricative after anything else; c is Silent after s and
\* Plosive otherwise; g is Nasal after n and Plosive otherwise.
C16_ClassifyHCG ==
    /\ Classified(ValidChar_h) =>
          last_call.result = (IF last_call.value[3] = ValidChar_c THEN Affricate
                              ELSE IF last_call.value[3] = ValidChar_g THEN Silent
                              ELSE Fricative)
    /\ Classified(ValidChar_c) =>
          last_call.result = (IF last_call.value[3] = ValidChar_s THEN Silent
                              ELSE Plosive)
    /\ Classified(ValidChar_g) =>
          last_call.result = (IF last_call.value[3] = ValidChar_n THEN Nasal
                              ELSE Plosive)

\* C16 witness: an h after g, with c two back and t three back, is Silent.
C16_Witness ==
    /\ Classified(ValidChar_h)
    /\ last_call.value = <<ValidChar_t, ValidChar_c, ValidChar_g, ValidChar_h>>
    /\ last_call.result = Silent

\* the two symbols before the e form the digraph th, ch or sh
Digraph(value) ==
    value[3] = ValidChar_h /\ value[2] \in {ValidChar_t, ValidChar_c, ValidChar_s}

\* C17: an e is VowelModifier after a vowel; otherwise the deciding symbol
\* is the one two back, or the one three back when the two symbols before
\* the e form th, ch or sh, and the e is VowelModifier if the deciding
\* symbol is a vowel and VowelRoot if not; an e with padding in all three
\* older slots is VowelRoot.
C17_ClassifyE ==
    Classified(ValidChar_e) =>
        LET value == last_call.value IN
        /\ value[3] \in Vowels => last_call.result = VowelModifier
        /\ (value[3] \notin Vowels /\ Digraph(value)) =>
              last_call.result = (IF value[1] \in Vowels THEN VowelModifier
                                  ELSE VowelRoot)
        /\ (value[3] \notin Vowels /\ ~Digraph(value)) =>
              last_call.result = (IF value[2] \in Vowels THEN VowelModifier
                                  ELSE VowelRoot)
        /\ value = <<ValidChar_null, ValidChar_null, ValidChar_null, ValidChar_e>> =>
              last_call.result = VowelRoot

\* C17 witness: the e of "athe" is VowelModifier, decided by the a three
\* back, past the digraph th.
C17_Witness ==
    /\ Classified(ValidChar_e)
    /\ last_call.value = <<ValidChar_a, ValidChar_t, ValidChar_h, ValidChar_e>>
    /\ last_call.result = VowelModifier

(***************************************************************************)
(* Properties of the category stream of read_sample.                       *)
(***************************************************************************)
\* the window with the symbol at position i (0-based) in its most recent
\* slot and the symbols at i-1, i-2, i-3 in the older slots, padding before
\* the start
WindowEndingAt(valid_chars, i) ==
    [k \in 1 .. 4 |-> IF 4 - k <= i THEN valid_chars[i + 1 - (4 - k)] ELSE ValidChar_null]

\* C18 as stated: the category an ingest records for position i of the
\* sample is the classifier applied to the window whose most recent slot
\* holds the symbol at position i and whose older slots hold the symbols
\* at i-1, i-2 and i-3.
C18_CategoryOfPosition ==
    (last_read.op = "read_sample" /\ last_read.result = "ok") =>
        /\ Len(last_read.char_types) = Len(last_read.valid_chars)
        /\ \A i \in 0 .. (Len(last_read.valid_chars) - 1) :
              last_read.char_types[i + 1] =
                  CharType_try_from(WindowEndingAt(last_read.valid_chars, i))

\* C18 witness of the failure: ingesting "ann" records Null for the a at
\* position 0 and the category of that a, VowelRoot, for the n at position 1.
C18_CategoryLagsByOne ==
    /\ last_read.op = "read_sample"
    /\ last_read.result = "ok"
    /\ last_read.text = Text_ann
    /\ last_read.valid_chars = <<ValidChar_a, ValidChar_n, ValidChar_n>>
    /\ last_read.char_types[1] = Null
    /\ last_read.char_types[2] = VowelRoot
    /\ CharType_try_from(WindowEndingAt(last_read.valid_chars, 0)) = VowelRoot
    /\ CharType_try_from(WindowEndingAt(last_read.valid_chars, 1)) = Nasal

(***************************************************************************)
(* Properties of get_row_index.                                            *)
(***************************************************************************)
RECURSIVE MostRecentLowest(_, _, _)
\* the base-V number of the first k symbols of char_seq in which the symbol
\* at array index N-1 is the digit of weight V^0 and the one at index 0 the
\* digit of weight V^(N-1)
MostRecentLowest(V, char_seq, k) ==
    IF k = 0 THEN 0
    ELSE Pow(V, N - k) * char_seq[k] + MostRecentLowest(V, char_seq, k - 1)

\* C19 as stated: for a context of N symbols, oldest at array index 0 and
\* most recent at array index N-1, get_row_index returns the base-V number
\* whose lowest-order digit is the most recent symbol and whose
\* highest-order digit is the oldest symbol.
C19_MostRecentIsLowestDigit ==
    (last_call.op = "get_row_index" /\ Len(last_call.char_seq) = N) =>
        last_call.result =
            Ok(MostRecentLowest(ValidChar_VARIANTCOUNT, last_call.char_seq, N))

\* C19 witness of the failure: for the context a, ..., a, b (b the most
\* recent symbol) get_row_index returns V^(N-1), not 1.
C19_MostRecentIsHighestDigit ==
    /\ last_call.op = "get_row_index"
    /\ last_call.char_seq = Append(Repeat(ValidChar_a, N - 1), ValidChar_b)
    /\ last_call.result = Ok(Pow(ValidChar_VARIANTCOUNT, N - 1))
    /\ MostRecentLowest(ValidChar_VARIANTCOUNT, last_call.char_seq, N) = 1

(***************************************************************************)
(* Properties of the length factor.                                        *)
(***************************************************************************)
\* the length of a sample: the number of chars before its first None
SampleLength(text) ==
    (CHOOSE k \in 1 .. Len(text) :
        text[k] = None /\ \A j \in 1 .. (k - 1) : text[j] # None) - 1

\* the number of ingested samples, positive and negative, of length <= p
IngestedUpTo(p) ==
    BagSize([e \in {x \in DOMAIN history : SampleLength(x[2]) <= p} |-> history[e]])

\* every ingested sample has length L
AllOfLength(L) ==
    SamplesRead > 0 /\ \A e \in DOMAIN history : SampleLength(e[2]) = L

\* the end probability generate_probability_distribution computes at
\* position pos in the current model
EndHereAt(pos) == probability_end_here(sizes_slice(name_sizes, pos), name_sizes[2])

\* C20 as stated: the end probability generate_probability_distribution
\* uses at position p is the number of ingested samples of length <= p over
\* the number of ingested samples, so that it is nonzero at position L when
\* every sample has length L.
C20_EndProbabilityInclusive ==
    \A pos \in QueryPositions :
        (SamplesRead > 0 /\ ~sizes_slice_panics(name_sizes, pos)) =>
            /\ EndHereAt(pos) = f64_ratio(IngestedUpTo(pos), SamplesRead)
            /\ AllOfLength(pos) => f64_positive(EndHereAt(pos))

\* C20 witness of the failure: after only the empty sample (length 0) the
\* distribution at position 0 is computed with the end probability 0.0, not
\* 1 / 1, and gives the terminator the weight 0.
C20_EndProbabilityExclusive ==
    /\ history = (<<Pos, Text_empty>> :> 1)
    /\ AllOfLength(0)
    /\ f64_ratio(IngestedUpTo(0), SamplesRead) = f64_from(1)
    /\ EndHereAt(0) = f64_zero
    /\ last_call.op = "generate_probability_distribution"
    /\ last_call.char_seq = Repeat(ValidChar_null, N)
    /\ last_call.character_count = 0
    /\ ZeroAt(last_call.result, ValidChar_null)

(***************************************************************************)
(* Properties of guess_next_char.                                          *)
(***************************************************************************)
\* guess_next_char returned Ok
Guessed == last_call.op = "guess_next_char" /\ last_call.result.kind = "ok"

\* the distribution the last guess_next_char call drew from
GuessDistribution ==
    Distribution(last_call.char_seq, last_call.char_type_seq,
                 last_call.current_char_count)

\* the continuation probability of the current model at position pos is 0
NoContinuation(pos) ==
    /\ ~sizes_slice_panics(name_sizes, pos)
    /\ probability_ends_in_future(EndHereAt(pos)) = f64_zero

\* C21 as stated: the symbol guess_next_char returns has a weight > 0 in the
\* distribution it drew from, for every draw, the draw 0 included, and at a
\* position where the continuation probability is 0 it is the terminator.
C21_GuessHasPositiveWeight ==
    Guessed =>
        /\ PositiveAt(GuessDistribution, last_call.result.val[1])
        /\ NoContinuation(last_call.current_char_count) =>
              last_call.result.val[1] = ValidChar_null

\* C21 witness of the failure: after only the empty sample, the guess at
\* position 1, where the continuation probability is 0, returns a for the
\* draw 0 although a has the weight 0 and the terminator a weight > 0.
C21_ZeroDrawPicksZeroWeight ==
    /\ Guessed
    /\ history = (<<Pos, Text_empty>> :> 1)
    /\ last_call.current_char_count = 1
    /\ last_call.draw[1] = 0
    /\ NoContinuation(1)
    /\ last_call.result.val[1] = ValidChar_a
    /\ ZeroAt(GuessDistribution, ValidChar_a)
    /\ PositiveAt(GuessDistribution, ValidChar_null)

(***************************************************************************)
(* Properties of read_sample.                                              *)
(***************************************************************************)
\* read_sample returned Ok
ReadOk == last_read.op = "read_sample" /\ last_read.result = "ok"

\* the N entries of seq before position i (0-based), pad before the start
ContextBefore(seq, i, pad) ==
    [k \in 1 .. N |-> IF i - N + k >= 1 THEN seq[i - N + k] ELSE pad]

\* the observations of a sample of symbols: for each position the N symbols
\* before it -> its symbol, then the last N symbols -> terminator
CharObservations(valid_chars) ==
    [i \in 1 .. (Len(valid_chars) + 1) |->
        <<ContextBefore(valid_chars, i - 1, ValidChar_null),
          IF i <= Len(valid_chars) THEN valid_chars[i] ELSE ValidChar_null>>]

\* the observations of a stream of categories: for each position the N
\* categories before it -> its category
TypeObservations(char_types) ==
    [i \in 1 .. Len(char_types) |-> <<ContextBefore(char_types, i - 1, Null), char_types[i]>>]

\* the counter of table t for the observation o = <<context, next>>
Counter(t, o) == RowAt(t, get_row_index(t, o[1]).val)[o[2] + 1]

\* the rows of table t the observations obs fall in
RowsOf(t, obs) == {get_row_index(t, obs[k][1]).val : k \in DOMAIN obs}

\* how many of the observations obs fall in the cell (index, column)
Multiplicity(t, obs, index, column) ==
    Cardinality({k \in DOMAIN obs :
                    get_row_index(t, obs[k][1]).val = index /\ obs[k][2] + 1 = column})

\* table `after` is table `before` with every observation of obs counted,
\* but for those that found their counter at 255, and nothing else changed
Recorded(before, after, obs) ==
    \A index \in DOMAIN before.weights \cup DOMAIN after.weights \cup RowsOf(after, obs) :
        /\ \A column \in 1 .. after.V :
              RowAt(after, index)[column] =
                  Min(U8_MAX, RowAt(before, index)[column]
                                 + Multiplicity(after, obs, index, column))
        /\ SumAt(after, index) - SumAt(before, index) =
              SumSeq(RowAt(after, index), after.V) - SumSeq(RowAt(before, index), after.V)

\* the symbol table and the category table of a polarity
CharTable(self, test_type) ==
    IF test_type = Pos THEN self.positive_char_samples ELSE self.negative_char_samples

TypeTable(self, test_type) ==
    IF test_type = Pos THEN self.positive_char_type_samples
    ELSE self.negative_char_type_samples

\* an observation of the last read_sample found its counter at 255
HitSaturated ==
    \/ \E k \in DOMAIN CharObservations(last_read.valid_chars) :
          Counter(CharTable(last_read.before, last_read.test_type),
                  CharObservations(last_read.valid_chars)[k]) = U8_MAX
    \/ \E k \in DOMAIN TypeObservations(last_read.char_types) :
          Counter(TypeTable(last_read.before, last_read.test_type),
                  TypeObservations(last_read.char_types)[k]) = U8_MAX

\* the histogram `after` is `before` with one more sample of length L
Counted(before, after, L) ==
    /\ after[2] = before[2] + 1
    /\ Len(after[1]) >= L + 1
    /\ \A b \in 1 .. Len(after[1]) :
          after[1][b] = (IF b <= Len(before[1]) THEN before[1][b] ELSE 0)
                        + (IF b = L + 1 THEN 1 ELSE 0)

\* C22: a read_sample of which an observation hits a counter at 255 returns
\* Ok, drops that observation only (every other observation of the sample
\* is counted, in the symbol table and in the category table) and counts the
\* sample in the length histogram.
C22_SaturatedObservationDropped ==
    (last_read.op = "read_sample" /\ HitSaturated) =>
        /\ last_read.result = "ok"
        /\ Recorded(CharTable(last_read.before, last_read.test_type),
                    CharTable(Self, last_read.test_type),
                    CharObservations(last_read.valid_chars))
        /\ Recorded(TypeTable(last_read.before, last_read.test_type),
                    TypeTable(Self, last_read.test_type),
                    TypeObservations(last_read.char_types))
        /\ Counted(last_read.before.name_sizes, name_sizes, Len(last_read.valid_chars))

\* C22 witness: "aba" read after 255 reads of "ann": [pad, pad] -> a stays
\* at 255, [pad, a] -> b and [Null, VowelRoot] -> Plosive are counted, the
\* read returns Ok and the histogram counts it.
C22_Witness ==
    /\ ReadOk
    /\ last_read.text = Text_aba
    /\ HitSaturated
    /\ Counter(last_read.before.positive_char_samples,
               <<Repeat(ValidChar_null, N), ValidChar_a>>) = U8_MAX
    /\ Counter(positive_char_samples, <<Repeat(ValidChar_null, N), ValidChar_a>>) = U8_MAX
    /\ Counter(positive_char_samples,
               <<Append(Repeat(ValidChar_null, N - 1), ValidChar_a), ValidChar_b>>)
          = Counter(last_read.before.positive_char_samples,
                    <<Append(Repeat(ValidChar_null, N - 1), ValidChar_a), ValidChar_b>>) + 1
    /\ Counter(positive_char_type_samples,
               <<Append(Repeat(Null, N - 1), VowelRoot), Plosive>>)
          = Counter(last_read.before.positive_char_type_samples,
                    <<Append(Repeat(Null, N - 1), VowelRoot), Plosive>>) + 1
    /\ name_sizes[2] = last_read.before.name_sizes[2] + 1

\* C23: a read_sample of a sample of L symbols of which no observation hits
\* a counter at 255 makes exactly L+1 observations on the symbol table of its
\* polarity, in this order: for each position i the N symbols before i,
\* terminator-padded at the start, -> symbol i, then the last N symbols ->
\* terminator; each is counted and no other counter of that table changes.
C23_ObservationsOfSample ==
    (ReadOk /\ ~HitSaturated) =>
        /\ Len(last_read.observed) = Len(last_read.valid_chars) + 1
        /\ last_read.observed = CharObservations(last_read.valid_chars)
        /\ Recorded(CharTable(last_read.before, last_read.test_type),
                    CharTable(Self, last_read.test_type), last_read.observed)

\* C23 witness: "ann" read as a negative sample makes the four observations
\* ending with the last N symbols -> terminator, which is counted.
C23_Witness ==
    /\ ReadOk
    /\ ~HitSaturated
    /\ last_read.test_type = Neg
    /\ last_read.text = Text_ann
    /\ Len(last_read.observed) = 4
    /\ last_read.observed[4] =
          <<ContextBefore(<<ValidChar_a, ValidChar_n, ValidChar_n>>, 3, ValidChar_null),
            ValidChar_null>>
    /\ Counter(negative_char_samples, last_read.observed[4])
          = Counter(last_read.before.negative_char_samples, last_read.observed[4]) + 1

(***************************************************************************)
(* Properties of the length histogram.                                     *)
(***************************************************************************)
\* the number of ingested samples, positive and negative, of length L
IngestedOfLength(L) ==
    BagSize([e \in {x \in DOMAIN history : SampleLength(x[2]) = L} |-> history[e]])

\* the length of the longest ingested sample, 0 when there is none
LongestIngested ==
    IF DOMAIN history = {} THEN 0
    ELSE CHOOSE L \in {SampleLength(e[2]) : e \in DOMAIN history} :
             \A e \in DOMAIN history : SampleLength(e[2]) <= L

\* C24: after any sequence of read_positive_sample and read_negative_sample
\* calls, the total-sample counter is the number of calls that returned and
\* the sum of the buckets, bucket L is the number of ingested samples of
\* exactly L symbols, both polarities together, and the histogram has
\* exactly (longest ingested length + 1) buckets.
C24_HistogramCountsSamples ==
    /\ name_sizes[2] = SamplesRead
    /\ name_sizes[2] = SumSeq(name_sizes[1], Len(name_sizes[1]))
    /\ \A b \in 1 .. Len(name_sizes[1]) : name_sizes[1][b] = IngestedOfLength(b - 1)
    /\ Len(name_sizes[1]) = LongestIngested + 1

\* C24 witness: after "ann" as a positive and the empty sample as a negative
\* sample the histogram is [1, 0, 0, 1] with the total 2.
C24_Witness ==
    /\ history = (<<Pos, Text_ann>> :> 1) @@ (<<Neg, Text_empty>> :> 1)
    /\ last_read.op = "read_sample"
    /\ name_sizes = <<<<1, 0, 0, 1>>, 2>>

\* C25: whatever the buffer and the model it is called on, and however it
\* returns, read_positive_sample leaves the negative symbol table and the
\* negative category table as they were, and read_negative_sample the
\* positive symbol table and the positive category table.
C25_OtherPolarityUntouched ==
    last_read.op = "read_sample" =>
        IF last_read.test_type = Pos
        THEN /\ negative_char_samples = last_read.before.negative_char_samples
             /\ negative_char_type_samples = last_read.before.negative_char_type_samples
        ELSE /\ positive_char_samples = last_read.before.positive_char_samples
             /\ positive_char_type_samples = last_read.before.positive_char_type_samples

\* C25 witness: "ann" read as a negative sample on a model that holds a
\* positive sample changes the two negative tables and neither positive one.
C25_Witness ==
    /\ ReadOk
    /\ last_read.test_type = Neg
    /\ last_read.text = Text_ann
    /\ PositiveIngested
    /\ negative_char_samples # last_read.before.negative_char_samples
    /\ negative_char_type_samples # last_read.before.negative_char_type_samples
    /\ positive_char_samples = last_read.before.positive_char_samples
    /\ positive_char_type_samples = last_read.before.positive_char_type_samples

(***************************************************************************)
(* Properties of the factors of generate_probability_distribution.         *)
(***************************************************************************)
\* generate_probability_distribution returned Ok
DistributionOk ==
    last_call.op = "generate_probability_distribution" /\ last_call.result.kind = "ok"

\* the entries of the call before the length step, with the default scales
BeforeLength ==
    with_types(
        char_probabilities(
            get_row_and_sum(positive_char_samples, last_call.char_seq).val,
            get_row_and_sum(negative_char_samples, last_call.char_seq).val,
            1, 1,
            char_probability(
                0, get_row_and_sum(positive_char_samples, last_call.char_seq).val[2],
                0, get_row_and_sum(negative_char_samples, last_call.char_seq).val[2],
                1, 1)),
        type_probabilities(
            get_row_and_sum(positive_char_type_samples, last_call.char_type_seq).val,
            get_row_and_sum(negative_char_type_samples, last_call.char_type_seq).val,
            1, 1),
        char_4_window(last_call.char_seq))

\* P(ends here or earlier) and the continuation probability of the call
EndHere == EndHereAt(last_call.character_count)

Continues == probability_ends_in_future(EndHere)

Terminator == ValidChar_VARIANTCOUNT - 1

\* C26 as stated: the length step multiplies each non-terminator candidate
\* by the continuation probability and the terminator by P(ends here or
\* earlier) and scales neither side further, so the result is the one the
\* entries before the step give when the 28 candidates are multiplied by
\* the continuation probability itself.
C26_LengthStepUnscaled ==
    DistributionOk =>
        last_call.result
            = summed(squared(with_length(BeforeLength, EndHere, Continues), TRUE),
                     last_call.result.char_4_sequence)

\* C26 witness of the failure: after "ann" and the empty sample, at position
\* 1 with P(ends here) = 1/2, the weight of a is the square of (its entry
\* before the step * (1/2) / 29), not the square of (that entry * 1/2), while
\* the terminator's is the square of (its entry * 1/2).
C26_ContinuationDividedBy29 ==
    /\ DistributionOk
    /\ history = (<<Pos, Text_ann>> :> 1) @@ (<<Pos, Text_empty>> :> 1)
    /\ last_call.character_count = 1
    /\ EndHere = f64_ratio(1, 2)
    /\ Continues = f64_ratio(1, 2)
    /\ last_call.result.weight[Terminator + 1]
          = f64_mul(f64_mul(BeforeLength[Terminator + 1], EndHere),
                    f64_mul(BeforeLength[Terminator + 1], EndHere))
    /\ last_call.result.weight[ValidChar_a + 1]
          = f64_mul(f64_mul(BeforeLength[ValidChar_a + 1],
                            f64_div_int(Continues, ValidChar_VARIANTCOUNT)),
                    f64_mul(BeforeLength[ValidChar_a + 1],
                            f64_div_int(Continues, ValidChar_VARIANTCOUNT)))
    /\ last_call.result.weight[ValidChar_a + 1]
          # f64_mul(f64_mul(BeforeLength[ValidChar_a + 1], Continues),
                    f64_mul(BeforeLength[ValidChar_a + 1], Continues))

\* generate_probability_distribution, called with scales, returned Ok
ScaledOk == DistributionOk /\ "pos_easing_scale" \in DOMAIN last_call

\* the scales of the last call and whether it squares
APos == unwrap_or(last_call.pos_easing_scale, 1)

ANeg == unwrap_or(last_call.neg_easing_scale, 1)

Squared == unwrap_or(last_call.square_probabilities, TRUE)

\* the weight of a symbol before the category and length factors, given its
\* counters: (pos_count + a_pos) / (pos_sum + a_pos*29) when the negative row
\* sum is 0, and that times (neg_sum - neg_count + a_neg) / (neg_sum +
\* a_neg*29) when it is greater than 0
SymbolFactor(pos_count, pos_char_sum, neg_count, neg_char_sum, a_pos, a_neg) ==
    IF neg_char_sum = 0
    THEN positive_ratio(pos_count, pos_char_sum, a_pos, ValidChar_VARIANTCOUNT)
    ELSE f64_mul(positive_ratio(pos_count, pos_char_sum, a_pos, ValidChar_VARIANTCOUNT),
                 negative_ratio(neg_count, neg_char_sum, a_neg, a_neg,
                                ValidChar_VARIANTCOUNT))

\* the 29 weights SymbolFactor gives for the rows of the call
SymbolFactors(pos_row, neg_row) ==
    Array([k \in 1 .. ValidChar_VARIANTCOUNT |->
              SymbolFactor(pos_row[1][k], pos_row[2], neg_row[1][k], neg_row[2],
                           APos, ANeg)])

\* the result these weights give under the category and length factors of
\* the call
WithSymbolFactor ==
    finished(
        with_types(
            SymbolFactors(get_row_and_sum(positive_char_samples, last_call.char_seq).val,
                          get_row_and_sum(negative_char_samples, last_call.char_seq).val),
            type_probabilities(
                get_row_and_sum(positive_char_type_samples, last_call.char_type_seq).val,
                get_row_and_sum(negative_char_type_samples, last_call.char_type_seq).val,
                APos, ANeg),
            char_4_window(last_call.char_seq)),
        EndHere, Squared, last_call.result.char_4_sequence)

\* C27 as stated: the weight of symbol s before the category and length
\* factors is (pos_count[s] + a_pos) / (pos_sum + a_pos*29), times
\* (neg_sum - neg_count[s] + a_neg) / (neg_sum + a_neg*29) when the negative
\* row sum is greater than 0, so the result is the one these weights give
\* under the category and length factors of the call.
C27_ScalesEnterOwnFactor == ScaledOk => last_call.result = WithSymbolFactor

\* C27 witness of the failure: with "ann" ingested as a negative sample, the
\* default positive scale and the negative scale 2.0, the result for the
\* all-padding context is not the one the stated weights give.
C27_PositiveScaleInNegativeFactor ==
    /\ ScaledOk
    /\ history = (<<Neg, Text_ann>> :> 1)
    /\ last_call.char_seq = Repeat(ValidChar_null, N)
    /\ last_call.character_count = 0
    /\ last_call.pos_easing_scale = None
    /\ last_call.neg_easing_scale = Some(2)
    /\ get_row_and_sum(negative_char_samples, last_call.char_seq).val[2] > 0
    /\ last_call.result # WithSymbolFactor

\* C28 as stated: every Ok result of generate_probability_distribution
\* carries a finite sum of the weights greater than 0, whatever the model
\* and the easing scales, scales of 0 included.
C28_OkSumPositive ==
    ScaledOk => (last_call.result.sum.class = "fin" /\ f64_positive(last_call.result.sum))

\* C28 witness of the failure: after only the positive sample "ann", with
\* the positive scale 0.0, the call for the context of n's at position 0
\* returns Ok with 29 weights of 0 and the sum 0.
C28_OkWithZeroSum ==
    /\ ScaledOk
    /\ AnnOnly
    /\ last_call.char_seq = Repeat(ValidChar_n, N)
    /\ last_call.character_count = 0
    /\ last_call.pos_easing_scale = Some(0)
    /\ last_call.neg_easing_scale = None
    /\ last_call.result.sum = f64_zero
    /\ \A s \in ValidChars : ZeroAt(last_call.result, s)

====
